---- MODULE Spec2Model ----
(***************************************************************************)
(* Bookmark organizer: the bookmark tree, URL normalization and duplicate  *)
(* detection (validator.py), the categorization strategies and their merge *)
(* (analyzer.py) and the tree rewriting operations (organizer.py).         *)
(*                                                                         *)
(* Python strings are sequences of one-character strings, so that          *)
(* parsing, case folding, prefix tests and ordering are computed as the    *)
(* code computes them.  Python dicts keep insertion order: a dict is a     *)
(* sequence of entries with distinct keys.                                 *)
(***************************************************************************)
EXTENDS Integers, Sequences, FiniteSets, TLC

VARIABLES
    heap,               \* the dict objects of the program: object id -> dict
    open,               \* parser: the folders being filled, outermost first
    pos,                \* parser: the last anchor of the input file consumed
    phase,              \* "parse", then the operation that has run
    merged_categories,  \* categorize: the result of _merge_categories
    categories,         \* categorize: the mapping returned
    duplicates,         \* find_duplicates: the mapping returned
    broken_links,       \* the broken-link records given to remove_broken_links
    args,               \* the remaining arguments of the operation that has run
    result,             \* what the operation returned: the id of a tree (0 if none), a tuple
    raised,             \* the operation ended by raising an exception
    heap0,              \* the heap when the operation was called
    nurl,               \* _normalize_url: the URL handed to the first call
    nres,               \* _normalize_url: the results of the successive calls
    futures,            \* find_broken_links: the probes submitted to the worker pool
    html                \* export_html: the lines written between header and footer

treeVars == <<heap, open, pos, phase, merged_categories, categories, duplicates,
              broken_links, args, result, raised, heap0, futures, html>>
vars == <<heap, open, pos, phase, merged_categories, categories, duplicates,
          broken_links, args, result, raised, heap0, nurl, nres, futures, html>>

(***************************************************************************)
(* Characters and strings (Python str)                                     *)
(***************************************************************************)
\* The printable ASCII characters in code-point order, from 32 (space) on
\* (code 96, the grave accent, is written by name).
Printable == <<" ","!","\"","#","$","%","&","'","(",")","*","+",",","-",".","/","0","1","2","3","4","5","6","7","8","9",":",";","<","=",">","?","@","A","B","C","D","E","F","G","H","I","J","K","L","M","N","O","P","Q","R","S","T","U","V","W","X","Y","Z","[","\\","]","^","_","grave","a","b","c","d","e","f","g","h","i","j","k","l","m","n","o","p","q","r","s","t","u","v","w","x","y","z","{","|","}","~">>

CodeOf == [c \in {Printable[i] : i \in 1..Len(Printable)} |->
              31 + (CHOOSE i \in 1..Len(Printable) : Printable[i] = c)]

Ord(c) == CodeOf[c]
Chr(n) == Printable[n - 31]

IsUpper(c) == Ord(c) \in 65..90
IsLower(c) == Ord(c) \in 97..122
IsAlpha(c) == IsUpper(c) \/ IsLower(c)
IsDigit(c) == Ord(c) \in 48..57

LowerChar(c) == IF IsUpper(c) THEN Chr(Ord(c) + 32) ELSE c
UpperChar(c) == IF IsLower(c) THEN Chr(Ord(c) - 32) ELSE c

\* str.lower(), str.upper()
Lower(s) == [i \in 1..Len(s) |-> LowerChar(s[i])]
Upper(s) == [i \in 1..Len(s) |-> UpperChar(s[i])]

\* s[i:] and s[:i] with Python's 0-based index i
From(s, i) == SubSeq(s, i + 1, Len(s))
Upto(s, i) == SubSeq(s, 1, i)

\* the set of the elements of a sequence
Range(s) == {s[i] : i \in 1..Len(s)}

\* str.startswith
StartsWith(s, p) == Len(s) >= Len(p) /\ SubSeq(s, 1, Len(p)) = p

\* sub in s
Contains(s, sub) == \E i \in 0..(Len(s) - Len(sub)) : SubSeq(s, i + 1, i + Len(sub)) = sub

\* the least and the greatest member of a non-empty set of integers
Min(S) == CHOOSE i \in S : \A j \in S : i <= j
Max(S) == CHOOSE i \in S : \A j \in S : i >= j

\* s.find(c, start): the 0-based index of the first c at or after start, or -1
FindFrom(s, c, start) ==
    LET index(hits) == IF hits = {} THEN -1 ELSE Min(hits) - 1
    IN  index({i \in (start + 1)..Len(s) : s[i] = c})

Find(s, c) == FindFrom(s, c, 0)

\* s.rfind(c)
RFind(s, c) ==
    LET index(hits) == IF hits = {} THEN -1 ELSE Max(hits) - 1
    IN  index({i \in 1..Len(s) : s[i] = c})

\* s.split(c): the pieces between the occurrences of the character c
RECURSIVE Split(_, _)
Split(s, c) ==
    LET cut(i) == IF i < 0 THEN <<s>> ELSE <<Upto(s, i)>> \o Split(From(s, i + 1), c)
    IN  cut(Find(s, c))

\* s.split(c, 1): the part before the first c and the part behind it (empty without a c)
Partition(s, c) ==
    LET cut(i) == IF i < 0 THEN [head |-> s, tail |-> <<>>]
                  ELSE [head |-> Upto(s, i), tail |-> From(s, i + 1)]
    IN  cut(Find(s, c))

\* c.join(parts)
RECURSIVE Join(_, _)
Join(parts, c) ==
    IF parts = <<>> THEN <<>>
    ELSE IF Len(parts) = 1 THEN parts[1]
    ELSE parts[1] \o <<c>> \o Join(Tail(parts), c)

\* s.rstrip('/')
RECURSIVE RStripSlash(_)
RStripSlash(s) ==
    IF s # <<>> /\ s[Len(s)] = "/" THEN RStripSlash(Upto(s, Len(s) - 1)) ELSE s

\* a < b on str: lexicographic by code point
RECURSIVE StrLess(_, _)
StrLess(a, b) ==
    IF b = <<>> THEN FALSE
    ELSE IF a = <<>> THEN TRUE
    ELSE IF a[1] # b[1] THEN Ord(a[1]) < Ord(b[1])
    ELSE StrLess(Tail(a), Tail(b))

(***************************************************************************)
(* urllib.parse.urlparse, as the code calls it                             *)
(***************************************************************************)
\* urlsplit takes the scheme, then the netloc, then the fragment, then the query off the
\* url, and urlparse the parameters off the path that is left; the steps are the operators
\* below, the last step first
urlparse(url) ==
    LET \* scheme_chars: letters, digits, "+", "-", "."
        IsSchemeChar(c) == IsAlpha(c) \/ IsDigit(c) \/ c \in {"+", "-", "."}
        \* uses_params: the schemes whose last path segment may carry ;parameters
        UsesParams == { <<>>, <<"f","t","p">>, <<"h","d","l">>, <<"h","t","t","p">>,
                        <<"i","m","a","p">>, <<"h","t","t","p","s">>, <<"s","h","t","t","p">>,
                        <<"r","t","s","p">>, <<"s","i","p">>, <<"s","i","p","s">>,
                        <<"m","m","s">>, <<"s","f","t","p">>, <<"t","e","l">> }
        \* _splitnetloc(url, 2): the netloc ends at the first of "/", "?", "#"
        splitnetloc(u) ==
            LET cut(delim) == [netloc |-> SubSeq(u, 3, delim - 1), rest |-> SubSeq(u, delim, Len(u))]
            IN  cut(Min({i \in 3..Len(u) : u[i] \in {"/", "?", "#"}} \cup {Len(u) + 1}))
        \* _splitparams(url)
        splitparams(u) ==
            LET cut(i) == IF i < 0 THEN [path |-> u, params |-> <<>>]
                          ELSE [path |-> Upto(u, i), params |-> From(u, i + 1)]
            IN  cut(IF Find(u, "/") >= 0 THEN FindFrom(u, ";", RFind(u, "/")) ELSE Find(u, ";"))
        parsed(scheme, loc, frag, qry, sp) ==
            [scheme |-> scheme, netloc |-> loc.netloc, path |-> sp.path,
             params |-> sp.params, query |-> qry.tail, fragment |-> frag.tail]
        params_of(scheme, loc, frag, qry) ==
            parsed(scheme, loc, frag, qry,
                   IF scheme \in UsesParams /\ Find(qry.head, ";") >= 0
                   THEN splitparams(qry.head) ELSE [path |-> qry.head, params |-> <<>>])
        query_of(scheme, loc, frag) == params_of(scheme, loc, frag, Partition(frag.head, "?"))
        fragment_of(scheme, loc) == query_of(scheme, loc, Partition(loc.rest, "#"))
        netloc_of(scheme, rest) ==
            fragment_of(scheme, IF StartsWith(rest, <<"/", "/">>) THEN splitnetloc(rest)
                                ELSE [netloc |-> <<>>, rest |-> rest])
        scheme_of(i) ==
            IF i > 0 /\ IsAlpha(url[1]) /\ \A k \in 1..i : IsSchemeChar(url[k])
            THEN netloc_of(Lower(Upto(url, i)), From(url, i + 1))
            ELSE netloc_of(<<>>, url)
    IN  scheme_of(Find(url, ":"))

(***************************************************************************)
(* BookmarkValidator._normalize_url                                        *)
(***************************************************************************)
s_www == <<"w","w","w",".">>
s_https == <<"h","t","t","p","s",":","/","/">>
s_youtube_com == <<"y","o","u","t","u","b","e",".","c","o","m">>
s_youtu_be == <<"y","o","u","t","u",".","b","e">>
s_v_eq == <<"v","=">>

tracking_params == {
    <<"u","t","m","_","s","o","u","r","c","e">>, <<"u","t","m","_","m","e","d","i","u","m">>,
    <<"u","t","m","_","c","a","m","p","a","i","g","n">>, <<"u","t","m","_","t","e","r","m">>,
    <<"u","t","m","_","c","o","n","t","e","n","t">>, <<"f","b","c","l","i","d">>,
    <<"g","c","l","i","d">>, <<"r","e","f">>, <<"s","o","u","r","c","e">>,
    <<"r","e","f","_","s","r","c">>, <<"r","e","f","_","u","r","l">>, <<"_","g","a">> }

\* netloc.lower(), then one leading "www." removed
strip_www(netloc) ==
    LET strip(n) == IF StartsWith(n, s_www) THEN From(n, 4) ELSE n
    IN  strip(Lower(netloc))

\* the host test of the video special case
is_video_host(netloc) == Contains(netloc, s_youtube_com) \/ Contains(netloc, s_youtu_be)

\* the pairs of the query that contain "="
eq_pairs(query) == SelectSeq(Split(query, "&"), LAMBDA p : Find(p, "=") >= 0)

\* dict(pair.split('=') ...) raises ValueError when a pair has more than one "="
\* the video special case: keep only v, params['v'] of dict(...) being the
\* value of the last pair named v, or "none"
video_query(netloc, query) ==
    IF is_video_host(netloc) /\ Contains(query, s_v_eq)
    THEN LET only(v) == IF v = "none" THEN <<>> ELSE s_v_eq \o v
             last(ps, vs) == IF vs = {} THEN "none" ELSE Split(ps[Max(vs)], "=")[2]
             named_v(ps) == last(ps, {k \in 1..Len(ps) : Split(ps[k], "=")[1] = <<"v">>})
         IN  only(named_v(eq_pairs(query)))
    ELSE query

\* the tracking-parameter filter: the parameters with "=" whose name is no
\* tracking parameter survive
filter_tracking(query) ==
    LET keep_param(param) ==
            /\ Find(param, "=") >= 0
            /\ Lower(Split(param, "=")[1]) \notin tracking_params
    IN  IF query = <<>> THEN <<>>
        ELSE Join(SelectSeq(Split(query, "&"), keep_param), "&")

normalize_url(url) ==
    LET joined(netloc, path, query) ==
            s_https \o netloc \o path \o (IF query # <<>> THEN <<"?">> \o query ELSE <<>>)
        \* the ValueError of the video special case is caught: the URL is returned as it is
        normalized(parsed, netloc) ==
            IF is_video_host(netloc) /\ Contains(parsed.query, s_v_eq)
                  /\ \E pair \in Range(eq_pairs(parsed.query)) : Len(Split(pair, "=")) # 2
            THEN url
            ELSE joined(netloc, RStripSlash(parsed.path),
                        filter_tracking(video_query(netloc, parsed.query)))
        lowered(parsed) == normalized(parsed, strip_www(parsed.netloc))
    IN  lowered(urlparse(url))

(***************************************************************************)
(* Dicts and the heap                                                      *)
(***************************************************************************)
\* dict.get(key, default)
Get(obj, key, default) == IF key \in DOMAIN obj THEN obj[key] ELSE default

\* An insertion-ordered dict is a sequence of entries [key, value] with distinct
\* keys.  d[key] for a key that is present:
DictGet(d, key) == d[CHOOSE i \in 1..Len(d) : d[i].key = key].value
DictHas(d, key) == \E i \in 1..Len(d) : d[i].key = key

\* d[key] = value: a present key keeps its position, a new key goes last
DictSet(d, key, value) ==
    IF DictHas(d, key)
    THEN [i \in 1..Len(d) |-> IF d[i].key = key THEN [key |-> key, value |-> value] ELSE d[i]]
    ELSE Append(d, [key |-> key, value |-> value])

\* defaultdict(list): d[key].append(item)
DictAppend(d, key, item) ==
    DictSet(d, key, IF DictHas(d, key) THEN Append(DictGet(d, key), item) ELSE <<item>>)

\* defaultdict(list): d[key].extend(items)
DictExtend(d, key, items) ==
    DictSet(d, key, IF DictHas(d, key) THEN DictGet(d, key) \o items ELSE items)

\* the id of the root folder parse_html creates first
RootId == 1

s_Bookmarks == <<"B","o","o","k","m","a","r","k","s">>

\* the ids of the nodes of the tree rooted at id, the root included
RECURSIVE Nodes(_, _)
Nodes(h, id) ==
    IF h[id].type = "folder"
    THEN {id} \cup UNION {Nodes(h, h[id].children[i]) : i \in 1..Len(h[id].children)}
    ELSE {id}

\* count_bookmarks_and_folders: the bookmarks, and the folders without the root
count_bookmarks(h, id) == Cardinality({n \in Nodes(h, id) : h[n].type = "bookmark"})
count_folders(h, id) == Cardinality({n \in Nodes(h, id) : h[n].type = "folder"}) - 1

(***************************************************************************)
(* BookmarkParser: the tree is built in document order                     *)
(***************************************************************************)
\* the input file holds at most this many bookmarks and folders
MaxNodes == 3

\* the folder headers (H3) an input file may carry
FolderTitles == { <<"Z","e","d">>,      \* Zed
                  <<"d","e","v">> }     \* dev

\* The anchors (A) of the input file in document order: text, href, add_date * 1000
\* and icon.  An input file carries a subsequence of them, spread over its folders.
Anchors == <<
    \* "News" at http://github.com/a
    [title |-> <<"N","e","w","s">>,
     url |-> <<"h","t","t","p",":","/","/","g","i","t","h","u","b",".","c","o","m","/","a">>,
     dateAdded |-> 1000, icon |-> <<"i">>],
    \* "b" at https://www.github.com/a/
    [title |-> <<"b">>,
     url |-> <<"h","t","t","p","s",":","/","/","w","w","w",".","g","i","t","h","u","b",".","c","o","m","/","a","/">>,
     dateAdded |-> 0, icon |-> <<>>],
    \* "b" at http://github.com/a
    [title |-> <<"b">>,
     url |-> <<"h","t","t","p",":","/","/","g","i","t","h","u","b",".","c","o","m","/","a">>,
     dateAdded |-> 0, icon |-> <<>>],
    \* "Apple blog" at http://x.io/docs
    [title |-> <<"A","p","p","l","e"," ","b","l","o","g">>,
     url |-> <<"h","t","t","p",":","/","/","x",".","i","o","/","d","o","c","s">>,
     dateAdded |-> 1000, icon |-> <<>>],
    \* an anchor without text at http://x.io/docs
    [title |-> <<>>,
     url |-> <<"h","t","t","p",":","/","/","x",".","i","o","/","d","o","c","s">>,
     dateAdded |-> 1000, icon |-> <<>>],
    \* "c", an anchor without href
    [title |-> <<"c">>,
     url |-> <<>>,
     dateAdded |-> 0, icon |-> <<>>],
    \* "w" at http://www.WWW.GitHub.com/a
    [title |-> <<"w">>,
     url |-> <<"h","t","t","p",":","/","/","w","w","w",".","W","W","W",".","G","i","t","H","u","b",".","c","o","m","/","a">>,
     dateAdded |-> 0, icon |-> <<>>],
    \* "a2" at http://z.com/
    [title |-> <<"a","2">>,
     url |-> <<"h","t","t","p",":","/","/","z",".","c","o","m","/">>,
     dateAdded |-> 0, icon |-> <<>>],
    \* "a2" at http://z.org/
    [title |-> <<"a","2">>,
     url |-> <<"h","t","t","p",":","/","/","z",".","o","r","g","/">>,
     dateAdded |-> 0, icon |-> <<>>] >>

\* parse_html: the root folder
root_folder == [type |-> "folder", title |-> s_Bookmarks, children |-> <<>>, dateAdded |-> 1000]

\* _process_chrome_folder: the dict of a folder header
new_folder(title) ==
    [type |-> "folder", title |-> title, children |-> <<>>, dateAdded |-> 0, lastModified |-> 0]

\* _add_bookmark_from_anchor makes no bookmark of an anchor without href or with the
\* href of a script or of a browser page
is_skipped(url) ==
    \/ url = <<>>
    \/ \E prefix \in { <<"j","a","v","a","s","c","r","i","p","t",":">>, <<"a","b","o","u","t",":">>,
                        <<"c","h","r","o","m","e",":">>, <<"e","d","g","e",":">>,
                        <<"f","i","l","e",":">> } : StartsWith(url, prefix)

\* _add_bookmark_from_anchor: the dict of an anchor; an anchor without text is
\* titled "Untitled Bookmark", the icon is there only when the anchor has one
bookmark_of(a) ==
    LET base == [type |-> "bookmark",
                 title |-> IF a.title # <<>> THEN a.title
                           ELSE <<"U","n","t","i","t","l","e","d"," ","B","o","o","k","m","a","r","k">>,
                 url |-> a.url, dateAdded |-> a.dateAdded, lastModified |-> 0]
    IN  IF a.icon # <<>> THEN ("icon" :> a.icon) @@ base ELSE base

\* A tree that a caller of the library builds itself may hold a bookmark without a
\* URL, which the parser never makes; the operations test "if url" for it.
passenger ==
    [type |-> "bookmark", title |-> <<"c">>, url |-> <<>>, dateAdded |-> 0, lastModified |-> 0]

\* parent_folder["children"].append(obj), obj being a new object
append_child(h, parent, obj) ==
    Append([h EXCEPT ![parent].children = Append(@, Len(h) + 1)], obj)

(***************************************************************************)
(* flatten: _extract_all_bookmarks (the same code in all three classes)    *)
(***************************************************************************)
\* an annotation with the title of the folder the bookmark is in, not the whole path
with_path_of_folder(child, folder_path) == ("folderPath" :> <<folder_path[Len(folder_path)]>>) @@ child

\* child.copy() with child_copy['folderPath'] = folder_path
with_path(child, folder_path) == ("folderPath" :> folder_path) @@ child

RECURSIVE extract_all_bookmarks(_, _, _)
RECURSIVE extract_children(_, _, _)
extract_children(h, children, folder_path) ==
    IF children = <<>> THEN <<>>
    ELSE (IF h[children[1]].type = "bookmark"
          THEN <<with_path(h[children[1]], folder_path)>>
          ELSE extract_all_bookmarks(h, children[1], folder_path))
         \o extract_children(h, Tail(children), folder_path)

extract_all_bookmarks(h, bookmark_data, current_path) ==
    IF h[bookmark_data].type = "folder"
    THEN extract_children(h, Get(h[bookmark_data], "children", <<>>),
                          Append(current_path, h[bookmark_data].title))
    ELSE <<>>

flatten(h, id) == extract_all_bookmarks(h, id, <<>>)

(***************************************************************************)
(* copy.deepcopy of a tree: every node of the copy is a new object         *)
(***************************************************************************)
\* what the operations would do without the copy: work on the caller's tree
deepcopy_alias(h, id) == [heap |-> h, id |-> id]

RECURSIVE deepcopy(_, _)
RECURSIVE deepcopy_list(_, _)
deepcopy_list(h, ids) ==
    IF ids = <<>> THEN [heap |-> h, ids |-> <<>>]
    ELSE LET both(first, rest) == [heap |-> rest.heap, ids |-> <<first.id>> \o rest.ids]
             others(first) == both(first, deepcopy_list(first.heap, Tail(ids)))
         IN  others(deepcopy(h, ids[1]))

deepcopy(h, id) ==
    IF h[id].type = "folder"
    THEN LET folder(kids) == [heap |-> Append(kids.heap, [h[id] EXCEPT !.children = kids.ids]),
                                  id |-> Len(kids.heap) + 1]
         IN  folder(deepcopy_list(h, h[id].children))
    ELSE [heap |-> Append(h, h[id]), id |-> Len(h) + 1]

(***************************************************************************)
(* BookmarkOrganizer.remove_broken_links                                   *)
(***************************************************************************)
\* a removal that filters the folder it is given but not the folders below it
remove_broken_shallow(h, folder, broken_urls) ==
    IF h[folder].type # "folder" THEN h
    ELSE [h EXCEPT ![folder].children =
            SelectSeq(@, LAMBDA c : h[c].type # "bookmark" \/ Get(h[c], "url", <<>>) \notin broken_urls)]

RECURSIVE remove_broken_recursive(_, _, _)
RECURSIVE remove_broken_children(_, _, _)
\* the recursive calls of the loop, one per subfolder, in order
remove_broken_children(h, children, broken_urls) ==
    IF children = <<>> THEN h
    ELSE remove_broken_children(
            IF h[children[1]].type = "bookmark" THEN h
            ELSE remove_broken_recursive(h, children[1], broken_urls),
            Tail(children), broken_urls)

remove_broken_recursive(h, folder, broken_urls) ==
    IF h[folder].type # "folder" THEN h
    ELSE LET children == Get(h[folder], "children", <<>>)
             filtered_children ==
                 SelectSeq(children, LAMBDA c : h[c].type # "bookmark"
                                                \/ Get(h[c], "url", <<>>) \notin broken_urls)
             h1 == remove_broken_children(h, children, broken_urls)
         IN  [h1 EXCEPT ![folder].children = filtered_children]

remove_broken_links(h, bookmarks, broken) ==
    LET broken_urls == {Get(broken[i], "url", <<>>) : i \in 1..Len(broken)}
        cleaned(copy) ==
            [heap |-> remove_broken_recursive(copy.heap, copy.id, broken_urls), id |-> copy.id]
    IN  cleaned(deepcopy(h, bookmarks))

(***************************************************************************)
(* BookmarkValidator.find_duplicates                                       *)
(***************************************************************************)
RECURSIVE group_by_url(_, _, _)
\* url_groups[norm_url].append(bookmark) for every bookmark with a URL
group_by_url(all_bookmarks, url_normalize, url_groups) ==
    IF all_bookmarks = <<>> THEN url_groups
    ELSE LET bookmark == all_bookmarks[1]
             url == Get(bookmark, "url", <<>>)
             norm_url == IF url_normalize THEN normalize_url(url) ELSE url
         IN  group_by_url(Tail(all_bookmarks), url_normalize,
                          IF url = <<>> THEN url_groups
                          ELSE DictAppend(url_groups, norm_url, bookmark))

\* _refine_with_title_similarity is a stub: the groups are returned as they are
find_duplicates(h, bookmarks, url_normalize) ==
    SelectSeq(group_by_url(flatten(h, bookmarks), url_normalize, <<>>),
              LAMBDA e : Len(e.value) > 1)

(***************************************************************************)
(* BookmarkOrganizer.merge_duplicates                                      *)
(***************************************************************************)
\* a score that prefers the deeper folder paths
score_deeper_first(bookmark) ==
      (IF Get(bookmark, "title", <<>>) # <<>> THEN 10 ELSE 0)
    + (IF Get(bookmark, "icon", <<>>) # <<>> THEN 5 ELSE 0)
    + Len(Get(bookmark, "folderPath", <<>>))
    + (IF Get(bookmark, "dateAdded", 0) > 0 THEN 1 ELSE 0)

\* the score _choose_best_bookmark gives a bookmark
score(bookmark) ==
      (IF Get(bookmark, "title", <<>>) # <<>> THEN 10 ELSE 0)
    + (IF Get(bookmark, "icon", <<>>) # <<>> THEN 5 ELSE 0)
    - Len(Get(bookmark, "folderPath", <<>>))
    + (IF Get(bookmark, "dateAdded", 0) > 0 THEN 1 ELSE 0)

\* scored_bookmarks.sort(reverse=True) sorts (score, dict) tuples: two tuples
\* with the same score are ordered by their dicts, which raises TypeError unless
\* the dicts are equal.  The sort compares every two neighbours of its result,
\* so it raises exactly when two members tie on the score and differ.
choose_raises(dupes) ==
    /\ Len(dupes) > 1
    /\ \E i, j \in 1..Len(dupes) : score(dupes[i]) = score(dupes[j]) /\ dupes[i] # dupes[j]

\* the highest-scored member; the sort is stable, so the first of them
choose_best_bookmark(dupes) ==
    IF dupes = <<>> THEN <<>>
    ELSE dupes[CHOOSE i \in 1..Len(dupes) :
                  /\ \A j \in 1..Len(dupes) : score(dupes[j]) <= score(dupes[i])
                  /\ \A j \in 1..(i - 1) : score(dupes[j]) < score(dupes[i])]

\* the URLs one group marks for removal: every member URL but the survivor's
group_remove_urls(dupes) ==
    LET keep_url == Get(choose_best_bookmark(dupes), "url", <<>>)
    IN  {Get(dupes[i], "url", <<>>) : i \in 1..Len(dupes)} \ {<<>>, keep_url}

RECURSIVE remove_duplicates_recursive(_, _, _)
RECURSIVE remove_duplicates_children(_, _, _)
remove_duplicates_children(h, children, remove_urls) ==
    IF children = <<>> THEN h
    ELSE remove_duplicates_children(
            IF h[children[1]].type = "bookmark" THEN h
            ELSE remove_duplicates_recursive(h, children[1], remove_urls),
            Tail(children), remove_urls)

remove_duplicates_recursive(h, folder, remove_urls) ==
    IF h[folder].type # "folder" THEN h
    ELSE LET children == Get(h[folder], "children", <<>>)
             filtered_children ==
                 SelectSeq(children, LAMBDA c : h[c].type # "bookmark"
                                                \/ Get(h[c], "url", <<>>) \notin remove_urls)
             h1 == remove_duplicates_children(h, children, remove_urls)
         IN  [h1 EXCEPT ![folder].children = filtered_children]

\* merge_duplicates raises when choosing the survivor of some group raises
merge_raises(dups) == \E g \in 1..Len(dups) : choose_raises(dups[g].value)

merge_duplicates(h, bookmarks, dups) ==
    LET remove_urls == UNION {group_remove_urls(dups[g].value) : g \in 1..Len(dups)}
        merged(copy) ==
            [heap |-> remove_duplicates_recursive(copy.heap, copy.id, remove_urls), id |-> copy.id]
    IN  merged(deepcopy(h, bookmarks))

(***************************************************************************)
(* BookmarkAnalyzer: the rule tables                                       *)
(***************************************************************************)
\* self.tld_categories (analyzer.py 48-60), in insertion order
tld_categories == <<
    << <<"e","d","u">>, <<"E","d","u","c","a","t","i","o","n">> >>,
    << <<"g","o","v">>, <<"G","o","v","e","r","n","m","e","n","t">> >>,
    << <<"o","r","g">>, <<"N","o","n","-","p","r","o","f","i","t">> >>,
    << <<"i","o">>, <<"T","e","c","h","n","o","l","o","g","y">> >>,
    << <<"d","e","v">>, <<"D","e","v","e","l","o","p","m","e","n","t">> >>,
    << <<"t","e","c","h">>, <<"T","e","c","h","n","o","l","o","g","y">> >>,
    << <<"a","i">>, <<"A","r","t","i","f","i","c","i","a","l"," ","I","n","t","e","l","l","i","g","e","n","c","e">> >>,
    << <<"s","h","o","p">>, <<"S","h","o","p","p","i","n","g">> >>,
    << <<"s","t","o","r","e">>, <<"S","h","o","p","p","i","n","g">> >>,
    << <<"b","l","o","g">>, <<"B","l","o","g","s">> >>,
    << <<"n","e","w","s">>, <<"N","e","w","s">> >>
>>

\* self.domain_categories (analyzer.py 63-171), in insertion order
domain_categories == <<
    << <<"g","i","t","h","u","b",".","c","o","m">>, <<"D","e","v","e","l","o","p","m","e","n","t">> >>,
    << <<"g","i","t","l","a","b",".","c","o","m">>, <<"D","e","v","e","l","o","p","m","e","n","t">> >>,
    << <<"b","i","t","b","u","c","k","e","t",".","o","r","g">>, <<"D","e","v","e","l","o","p","m","e","n","t">> >>,
    << <<"s","t","a","c","k","o","v","e","r","f","l","o","w",".","c","o","m">>, <<"D","e","v","e","l","o","p","m","e","n","t">> >>,
    << <<"m","e","d","i","u","m",".","c","o","m">>, <<"T","e","c","h","n","o","l","o","g","y"," ","&"," ","D","e","v","e","l","o","p","m","e","n","t">> >>,
    << <<"d","e","v",".","t","o">>, <<"D","e","v","e","l","o","p","m","e","n","t">> >>,
    << <<"h","a","c","k","e","r","r","a","n","k",".","c","o","m">>, <<"D","e","v","e","l","o","p","m","e","n","t">> >>,
    << <<"l","e","e","t","c","o","d","e",".","c","o","m">>, <<"D","e","v","e","l","o","p","m","e","n","t">> >>,
    << <<"c","o","d","e","p","e","n",".","i","o">>, <<"W","e","b"," ","D","e","v","e","l","o","p","m","e","n","t">> >>,
    << <<"n","p","m","j","s",".","c","o","m">>, <<"W","e","b"," ","D","e","v","e","l","o","p","m","e","n","t">> >>,
    << <<"p","y","p","i",".","o","r","g">>, <<"P","y","t","h","o","n"," ","D","e","v","e","l","o","p","m","e","n","t">> >>,
    << <<"k","a","g","g","l","e",".","c","o","m">>, <<"D","a","t","a"," ","S","c","i","e","n","c","e">> >>,
    << <<"y","o","u","t","u","b","e",".","c","o","m">>, <<"V","i","d","e","o","s">> >>,
    << <<"y","o","u","t","u",".","b","e">>, <<"V","i","d","e","o","s">> >>,
    << <<"v","i","m","e","o",".","c","o","m">>, <<"V","i","d","e","o","s">> >>,
    << <<"t","w","i","t","c","h",".","t","v">>, <<"S","t","r","e","a","m","i","n","g">> >>,
    << <<"n","e","t","f","l","i","x",".","c","o","m">>, <<"E","n","t","e","r","t","a","i","n","m","e","n","t">> >>,
    << <<"h","u","l","u",".","c","o","m">>, <<"E","n","t","e","r","t","a","i","n","m","e","n","t">> >>,
    << <<"s","p","o","t","i","f","y",".","c","o","m">>, <<"M","u","s","i","c">> >>,
    << <<"s","o","u","n","d","c","l","o","u","d",".","c","o","m">>, <<"M","u","s","i","c">> >>,
    << <<"b","a","n","d","c","a","m","p",".","c","o","m">>, <<"M","u","s","i","c">> >>,
    << <<"d","e","e","z","e","r",".","c","o","m">>, <<"M","u","s","i","c">> >>,
    << <<"a","p","p","l","e",".","c","o","m","/","m","u","s","i","c">>, <<"M","u","s","i","c">> >>,
    << <<"l","i","n","k","e","d","i","n",".","c","o","m">>, <<"P","r","o","f","e","s","s","i","o","n","a","l">> >>,
    << <<"f","a","c","e","b","o","o","k",".","c","o","m">>, <<"S","o","c","i","a","l"," ","M","e","d","i","a">> >>,
    << <<"t","w","i","t","t","e","r",".","c","o","m">>, <<"S","o","c","i","a","l"," ","M","e","d","i","a">> >>,
    << <<"i","n","s","t","a","g","r","a","m",".","c","o","m">>, <<"S","o","c","i","a","l"," ","M","e","d","i","a">> >>,
    << <<"p","i","n","t","e","r","e","s","t",".","c","o","m">>, <<"S","o","c","i","a","l"," ","M","e","d","i","a">> >>,
    << <<"r","e","d","d","i","t",".","c","o","m">>, <<"S","o","c","i","a","l"," ","M","e","d","i","a">> >>,
    << <<"t","u","m","b","l","r",".","c","o","m">>, <<"S","o","c","i","a","l"," ","M","e","d","i","a">> >>,
    << <<"t","i","k","t","o","k",".","c","o","m">>, <<"S","o","c","i","a","l"," ","M","e","d","i","a">> >>,
    << <<"s","n","a","p","c","h","a","t",".","c","o","m">>, <<"S","o","c","i","a","l"," ","M","e","d","i","a">> >>,
    << <<"d","i","s","c","o","r","d",".","c","o","m">>, <<"C","o","m","m","u","n","i","c","a","t","i","o","n">> >>,
    << <<"s","l","a","c","k",".","c","o","m">>, <<"C","o","m","m","u","n","i","c","a","t","i","o","n">> >>,
    << <<"a","m","a","z","o","n",".","c","o","m">>, <<"S","h","o","p","p","i","n","g">> >>,
    << <<"a","m","a","z","o","n",".","c","o",".","u","k">>, <<"S","h","o","p","p","i","n","g">> >>,
    << <<"a","m","a","z","o","n",".","d","e">>, <<"S","h","o","p","p","i","n","g">> >>,
    << <<"e","b","a","y",".","c","o","m">>, <<"S","h","o","p","p","i","n","g">> >>,
    << <<"e","t","s","y",".","c","o","m">>, <<"S","h","o","p","p","i","n","g">> >>,
    << <<"a","l","i","e","x","p","r","e","s","s",".","c","o","m">>, <<"S","h","o","p","p","i","n","g">> >>,
    << <<"w","a","l","m","a","r","t",".","c","o","m">>, <<"S","h","o","p","p","i","n","g">> >>,
    << <<"t","a","r","g","e","t",".","c","o","m">>, <<"S","h","o","p","p","i","n","g">> >>,
    << <<"b","e","s","t","b","u","y",".","c","o","m">>, <<"S","h","o","p","p","i","n","g">> >>,
    << <<"n","y","t","i","m","e","s",".","c","o","m">>, <<"N","e","w","s">> >>,
    << <<"w","a","s","h","i","n","g","t","o","n","p","o","s","t",".","c","o","m">>, <<"N","e","w","s">> >>,
    << <<"b","b","c",".","c","o","m">>, <<"N","e","w","s">> >>,
    << <<"b","b","c",".","c","o",".","u","k">>, <<"N","e","w","s">> >>,
    << <<"c","n","n",".","c","o","m">>, <<"N","e","w","s">> >>,
    << <<"t","h","e","g","u","a","r","d","i","a","n",".","c","o","m">>, <<"N","e","w","s">> >>,
    << <<"r","e","u","t","e","r","s",".","c","o","m">>, <<"N","e","w","s">> >>,
    << <<"a","p","n","e","w","s",".","c","o","m">>, <<"N","e","w","s">> >>,
    << <<"w","i","k","i","p","e","d","i","a",".","o","r","g">>, <<"R","e","f","e","r","e","n","c","e">> >>,
    << <<"n","o","t","i","o","n",".","s","o">>, <<"P","r","o","d","u","c","t","i","v","i","t","y">> >>,
    << <<"t","r","e","l","l","o",".","c","o","m">>, <<"P","r","o","d","u","c","t","i","v","i","t","y">> >>,
    << <<"a","s","a","n","a",".","c","o","m">>, <<"P","r","o","d","u","c","t","i","v","i","t","y">> >>,
    << <<"e","v","e","r","n","o","t","e",".","c","o","m">>, <<"P","r","o","d","u","c","t","i","v","i","t","y">> >>,
    << <<"t","o","d","o","i","s","t",".","c","o","m">>, <<"P","r","o","d","u","c","t","i","v","i","t","y">> >>,
    << <<"g","o","o","g","l","e",".","c","o","m","/","d","o","c","s">>, <<"D","o","c","u","m","e","n","t","s">> >>,
    << <<"g","o","o","g","l","e",".","c","o","m","/","s","h","e","e","t","s">>, <<"S","p","r","e","a","d","s","h","e","e","t","s">> >>,
    << <<"g","o","o","g","l","e",".","c","o","m","/","d","r","i","v","e">>, <<"C","l","o","u","d"," ","S","t","o","r","a","g","e">> >>,
    << <<"d","r","o","p","b","o","x",".","c","o","m">>, <<"C","l","o","u","d"," ","S","t","o","r","a","g","e">> >>,
    << <<"o","n","e","d","r","i","v","e",".","l","i","v","e",".","c","o","m">>, <<"C","l","o","u","d"," ","S","t","o","r","a","g","e">> >>,
    << <<"d","o","c","s",".","m","i","c","r","o","s","o","f","t",".","c","o","m">>, <<"D","o","c","u","m","e","n","t","a","t","i","o","n">> >>,
    << <<"c","o","u","r","s","e","r","a",".","o","r","g">>, <<"E","d","u","c","a","t","i","o","n">> >>,
    << <<"u","d","e","m","y",".","c","o","m">>, <<"E","d","u","c","a","t","i","o","n">> >>,
    << <<"e","d","x",".","o","r","g">>, <<"E","d","u","c","a","t","i","o","n">> >>,
    << <<"k","h","a","n","a","c","a","d","e","m","y",".","o","r","g">>, <<"E","d","u","c","a","t","i","o","n">> >>,
    << <<"u","d","a","c","i","t","y",".","c","o","m">>, <<"E","d","u","c","a","t","i","o","n">> >>,
    << <<"p","l","u","r","a","l","s","i","g","h","t",".","c","o","m">>, <<"T","e","c","h","n","o","l","o","g","y"," ","E","d","u","c","a","t","i","o","n">> >>,
    << <<"f","r","e","e","c","o","d","e","c","a","m","p",".","o","r","g">>, <<"W","e","b"," ","D","e","v","e","l","o","p","m","e","n","t"," ","E","d","u","c","a","t","i","o","n">> >>,
    << <<"f","i","n","a","n","c","e",".","y","a","h","o","o",".","c","o","m">>, <<"F","i","n","a","n","c","e">> >>,
    << <<"m","a","r","k","e","t","w","a","t","c","h",".","c","o","m">>, <<"F","i","n","a","n","c","e">> >>,
    << <<"b","l","o","o","m","b","e","r","g",".","c","o","m">>, <<"F","i","n","a","n","c","e">> >>,
    << <<"i","n","v","e","s","t","o","p","e","d","i","a",".","c","o","m">>, <<"F","i","n","a","n","c","e"," ","E","d","u","c","a","t","i","o","n">> >>,
    << <<"p","a","y","p","a","l",".","c","o","m">>, <<"P","a","y","m","e","n","t">> >>,
    << <<"c","h","a","s","e",".","c","o","m">>, <<"B","a","n","k","i","n","g">> >>,
    << <<"b","a","n","k","o","f","a","m","e","r","i","c","a",".","c","o","m">>, <<"B","a","n","k","i","n","g">> >>,
    << <<"w","e","l","l","s","f","a","r","g","o",".","c","o","m">>, <<"B","a","n","k","i","n","g">> >>,
    << <<"b","o","o","k","i","n","g",".","c","o","m">>, <<"T","r","a","v","e","l">> >>,
    << <<"a","i","r","b","n","b",".","c","o","m">>, <<"T","r","a","v","e","l">> >>,
    << <<"e","x","p","e","d","i","a",".","c","o","m">>, <<"T","r","a","v","e","l">> >>,
    << <<"t","r","i","p","a","d","v","i","s","o","r",".","c","o","m">>, <<"T","r","a","v","e","l">> >>,
    << <<"m","a","p","s",".","g","o","o","g","l","e",".","c","o","m">>, <<"M","a","p","s">> >>,
    << <<"g","m","a","i","l",".","c","o","m">>, <<"E","m","a","i","l">> >>,
    << <<"o","u","t","l","o","o","k",".","c","o","m">>, <<"E","m","a","i","l">> >>,
    << <<"y","a","h","o","o",".","c","o","m","/","m","a","i","l">>, <<"E","m","a","i","l">> >>,
    << <<"z","o","o","m",".","u","s">>, <<"V","i","d","e","o"," ","C","o","n","f","e","r","e","n","c","i","n","g">> >>,
    << <<"m","e","e","t",".","g","o","o","g","l","e",".","c","o","m">>, <<"V","i","d","e","o"," ","C","o","n","f","e","r","e","n","c","i","n","g">> >>
>>

\* self.path_categories (analyzer.py 174-192), in insertion order
path_categories == <<
    << <<"/","b","l","o","g">>, <<"B","l","o","g">> >>,
    << <<"/","d","o","c","s">>, <<"D","o","c","u","m","e","n","t","a","t","i","o","n">> >>,
    << <<"/","d","o","c","u","m","e","n","t","a","t","i","o","n">>, <<"D","o","c","u","m","e","n","t","a","t","i","o","n">> >>,
    << <<"/","l","e","a","r","n">>, <<"L","e","a","r","n","i","n","g">> >>,
    << <<"/","c","o","u","r","s","e","s">>, <<"C","o","u","r","s","e","s">> >>,
    << <<"/","n","e","w","s">>, <<"N","e","w","s">> >>,
    << <<"/","s","h","o","p">>, <<"S","h","o","p","p","i","n","g">> >>,
    << <<"/","s","t","o","r","e">>, <<"S","h","o","p","p","i","n","g">> >>,
    << <<"/","p","r","o","d","u","c","t">>, <<"P","r","o","d","u","c","t">> >>,
    << <<"/","f","o","r","u","m">>, <<"F","o","r","u","m">> >>,
    << <<"/","c","o","m","m","u","n","i","t","y">>, <<"C","o","m","m","u","n","i","t","y">> >>,
    << <<"/","s","u","p","p","o","r","t">>, <<"S","u","p","p","o","r","t">> >>,
    << <<"/","h","e","l","p">>, <<"H","e","l","p">> >>,
    << <<"/","f","a","q">>, <<"F","A","Q">> >>,
    << <<"/","w","i","k","i">>, <<"W","i","k","i">> >>,
    << <<"/","a","b","o","u","t">>, <<"A","b","o","u","t">> >>,
    << <<"/","c","o","n","t","a","c","t">>, <<"C","o","n","t","a","c","t">> >>
>>

\* self.title_keywords (analyzer.py 195-237), in insertion order
title_keywords == <<
    << <<"t","u","t","o","r","i","a","l">>, <<"T","u","t","o","r","i","a","l","s">> >>,
    << <<"c","o","u","r","s","e">>, <<"C","o","u","r","s","e","s">> >>,
    << <<"l","e","a","r","n">>, <<"L","e","a","r","n","i","n","g">> >>,
    << <<"g","u","i","d","e">>, <<"G","u","i","d","e","s">> >>,
    << <<"h","o","w","t","o">>, <<"H","o","w","-","T","o">> >>,
    << <<"d","o","c","u","m","e","n","t","a","t","i","o","n">>, <<"D","o","c","u","m","e","n","t","a","t","i","o","n">> >>,
    << <<"r","e","f","e","r","e","n","c","e">>, <<"R","e","f","e","r","e","n","c","e">> >>,
    << <<"c","h","e","a","t","s","h","e","e","t">>, <<"C","h","e","a","t"," ","S","h","e","e","t","s">> >>,
    << <<"r","e","c","i","p","e">>, <<"R","e","c","i","p","e","s">> >>,
    << <<"b","l","o","g">>, <<"B","l","o","g","s">> >>,
    << <<"n","e","w","s">>, <<"N","e","w","s">> >>,
    << <<"a","r","t","i","c","l","e">>, <<"A","r","t","i","c","l","e","s">> >>,
    << <<"r","e","v","i","e","w">>, <<"R","e","v","i","e","w","s">> >>,
    << <<"s","h","o","p">>, <<"S","h","o","p","p","i","n","g">> >>,
    << <<"s","t","o","r","e">>, <<"S","h","o","p","p","i","n","g">> >>,
    << <<"b","u","y">>, <<"S","h","o","p","p","i","n","g">> >>,
    << <<"p","r","o","d","u","c","t">>, <<"P","r","o","d","u","c","t","s">> >>,
    << <<"t","o","o","l">>, <<"T","o","o","l","s">> >>,
    << <<"s","e","r","v","i","c","e">>, <<"S","e","r","v","i","c","e","s">> >>,
    << <<"a","p","i">>, <<"A","P","I","s">> >>,
    << <<"d","o","w","n","l","o","a","d">>, <<"D","o","w","n","l","o","a","d","s">> >>,
    << <<"g","a","m","e">>, <<"G","a","m","e","s">> >>,
    << <<"v","i","d","e","o">>, <<"V","i","d","e","o","s">> >>,
    << <<"m","u","s","i","c">>, <<"M","u","s","i","c">> >>,
    << <<"a","u","d","i","o">>, <<"A","u","d","i","o">> >>,
    << <<"p","o","d","c","a","s","t">>, <<"P","o","d","c","a","s","t","s">> >>,
    << <<"b","o","o","k">>, <<"B","o","o","k","s">> >>,
    << <<"p","a","p","e","r">>, <<"R","e","s","e","a","r","c","h"," ","P","a","p","e","r","s">> >>,
    << <<"r","e","s","e","a","r","c","h">>, <<"R","e","s","e","a","r","c","h">> >>,
    << <<"j","o","b">>, <<"J","o","b","s">> >>,
    << <<"c","a","r","e","e","r">>, <<"C","a","r","e","e","r","s">> >>,
    << <<"p","o","r","t","f","o","l","i","o">>, <<"P","o","r","t","f","o","l","i","o","s">> >>,
    << <<"p","r","o","j","e","c","t">>, <<"P","r","o","j","e","c","t","s">> >>,
    << <<"f","o","r","u","m">>, <<"F","o","r","u","m","s">> >>,
    << <<"c","o","m","m","u","n","i","t","y">>, <<"C","o","m","m","u","n","i","t","i","e","s">> >>,
    << <<"d","a","s","h","b","o","a","r","d">>, <<"D","a","s","h","b","o","a","r","d","s">> >>,
    << <<"a","n","a","l","y","t","i","c","s">>, <<"A","n","a","l","y","t","i","c","s">> >>,
    << <<"r","e","p","o","r","t">>, <<"R","e","p","o","r","t","s">> >>,
    << <<"l","o","g","i","n">>, <<"L","o","g","i","n","s">> >>,
    << <<"a","c","c","o","u","n","t">>, <<"A","c","c","o","u","n","t","s">> >>,
    << <<"p","r","o","f","i","l","e">>, <<"P","r","o","f","i","l","e","s">> >>
>>

\* the value of the first entry of the table among the matching entries hits, or ""
FirstMatch(table, hits) == IF hits = {} THEN <<>> ELSE table[Min(hits)][2]

(***************************************************************************)
(* BookmarkAnalyzer: the five strategies                                   *)
(***************************************************************************)
\* _extract_domain: the netloc, lowercased, one leading "www." removed
extract_domain(url) == strip_www(urlparse(url).netloc)

\* re.IGNORECASE match of a literal at the 0-based offset k of s
LiteralAt(s, k, literal) ==
    /\ Len(s) >= k + Len(literal)
    /\ Lower(SubSeq(s, k + 1, k + Len(literal))) = Lower(literal)

\* _init_domain_patterns: pattern.match(s) for the pattern compiled from a rule.
\* A rule without "/" gives ^(?:www\.)?<rule>; a rule <base>/<path> gives
\* ^(?:www\.)?<base>/.*<path>.  pattern_starts: the offsets at which the optional
\* www. may end
pattern_match(rule, s) ==
    LET pattern_starts == {0} \cup (IF LiteralAt(s, 0, s_www) THEN {4} ELSE {})
        matches(slash, base, path) ==
            \E k \in pattern_starts :
              /\ LiteralAt(s, k, base)
              /\ slash >= 0 =>
                    /\ LiteralAt(s, k + Len(base), <<"/">>)
                    /\ \E m \in (k + Len(base) + 1)..Len(s) : LiteralAt(s, m, path)
        compiled(slash) == matches(slash, IF slash >= 0 THEN Upto(rule, slash) ELSE rule,
                                   IF slash >= 0 THEN From(rule, slash + 1) ELSE <<>>)
    IN  compiled(Find(rule, "/"))

\* the category of the first rule whose pattern matches the domain, or ""
domain_category(bookmark) ==
    LET url == Get(bookmark, "url", <<>>)
        first_rule(domain) ==
            FirstMatch(domain_categories,
                       {i \in 1..Len(domain_categories) : pattern_match(domain_categories[i][1], domain)})
    IN  IF url = <<>> THEN <<>> ELSE first_rule(extract_domain(url))

\* the category of the last label of the netloc, when there are two labels or more
tld_category(bookmark) ==
    LET url == Get(bookmark, "url", <<>>)
        table_get(key) ==
            FirstMatch(tld_categories, {i \in 1..Len(tld_categories) : tld_categories[i][1] = key})
        last_label(domain_parts) ==
            IF Len(domain_parts) <= 1 THEN <<>>
            ELSE table_get(Lower(domain_parts[Len(domain_parts)]))
    IN  IF url = <<>> THEN <<>> ELSE last_label(Split(urlparse(url).netloc, "."))

\* the category of the first path rule contained in the lowercased path
path_category(bookmark) ==
    LET url == Get(bookmark, "url", <<>>)
        first_rule(path) ==
            FirstMatch(path_categories,
                       {i \in 1..Len(path_categories) : Contains(path, path_categories[i][1])})
    IN  IF url = <<>> THEN <<>> ELSE first_rule(Lower(urlparse(url).path))

\* _tokenize_and_clean: lowercase, punctuation to spaces, split on white space,
\* stop words and words of one or two letters dropped.  stopwords.words('english')
\* comes from the NLTK corpus; no keyword of title_keywords is a stop word, so
\* the words listed here are a sample of it
tokenize_and_clean(text) ==
    LET IsWordChar(c) == IsAlpha(c) \/ IsDigit(c) \/ c = "_"
        stop_words == { <<"t","h","e">>, <<"a","n","d">>, <<"f","o","r">>, <<"w","i","t","h">>,
                        <<"a","b","o","u","t">>, <<"h","o","w">>, <<"a","l","l">> }
        spaced(lowered) == [i \in 1..Len(lowered) |->
                               IF IsWordChar(lowered[i]) \/ lowered[i] = " " THEN lowered[i] ELSE " "]
    IN  SelectSeq(Split(spaced(Lower(text)), " "),
                  LAMBDA word : word \notin stop_words /\ Len(word) > 2)

\* the category of the first keyword that is a token of the title
title_category(bookmark) ==
    LET first_keyword(tokens) ==
            FirstMatch(title_keywords,
                       {i \in 1..Len(title_keywords) : title_keywords[i][1] \in tokens})
        lowered(title) ==
            IF title = <<>> THEN <<>> ELSE first_keyword(Range(tokenize_and_clean(title)))
    IN  lowered(Lower(Get(bookmark, "title", <<>>)))

\* the title of the first folder below the root, for a bookmark not in the root
folder_category(bookmark) ==
    LET folder_path == Get(bookmark, "folderPath", <<>>)
    IN  IF Len(folder_path) > 1 THEN folder_path[2] ELSE <<>>

RECURSIVE group_by_category(_, _, _)
\* categories[category].append(bookmark) for each bookmark that has a category
group_by_category(bookmarks, names, cats) ==
    IF bookmarks = <<>> THEN cats
    ELSE group_by_category(Tail(bookmarks), Tail(names),
                           IF names[1] = <<>> THEN cats
                           ELSE DictAppend(cats, names[1], bookmarks[1]))

categorize_by_domain(bookmarks) ==
    group_by_category(bookmarks, [i \in 1..Len(bookmarks) |-> domain_category(bookmarks[i])], <<>>)
categorize_by_tld(bookmarks) ==
    group_by_category(bookmarks, [i \in 1..Len(bookmarks) |-> tld_category(bookmarks[i])], <<>>)
categorize_by_path(bookmarks) ==
    group_by_category(bookmarks, [i \in 1..Len(bookmarks) |-> path_category(bookmarks[i])], <<>>)
categorize_by_title(bookmarks) ==
    group_by_category(bookmarks, [i \in 1..Len(bookmarks) |-> title_category(bookmarks[i])], <<>>)
categorize_by_folder(bookmarks) ==
    group_by_category(bookmarks, [i \in 1..Len(bookmarks) |-> folder_category(bookmarks[i])], <<>>)

(***************************************************************************)
(* BookmarkAnalyzer._merge_categories and _filter_and_sort_categories      *)
(***************************************************************************)
RECURSIVE Concat(_)
Concat(seqs) == IF seqs = <<>> THEN <<>> ELSE seqs[1] \o Concat(Tail(seqs))

\* the (category, bookmark) pairs in the order the three nested loops visit them
merge_order(category_sets) ==
    Concat([s \in 1..Len(category_sets) |->
        Concat([c \in 1..Len(category_sets[s]) |->
            [b \in 1..Len(category_sets[s][c].value) |->
                [category |-> category_sets[s][c].key,
                 bookmark |-> category_sets[s][c].value[b]]]])])

\* a merge that adds every bookmark that has a URL, claimed or not
may_add_unchecked(bookmark_id, categorized_bookmarks) == bookmark_id # <<>>

\* "if bookmark_id and bookmark_id not in categorized_bookmarks"
may_add(bookmark_id, categorized_bookmarks) ==
    bookmark_id # <<>> /\ bookmark_id \notin categorized_bookmarks

RECURSIVE merge_loop(_, _, _)
merge_loop(pairs, categorized_bookmarks, merged) ==
    IF pairs = <<>> THEN merged
    ELSE LET bookmark_id == Get(pairs[1].bookmark, "url", <<>>)
         IN  IF may_add(bookmark_id, categorized_bookmarks)
             THEN merge_loop(Tail(pairs), categorized_bookmarks \cup {bookmark_id},
                             DictAppend(merged, pairs[1].category, pairs[1].bookmark))
             ELSE merge_loop(Tail(pairs), categorized_bookmarks, merged)

merge_categories(category_sets) == merge_loop(merge_order(category_sets), {}, <<>>)

\* min_items of _filter_and_sort_categories
MinItems == 2

\* the sort key (len(items), name) of a category, compared as Python compares tuples
key_less(a, b) ==
    \/ Len(a.value) < Len(b.value)
    \/ Len(a.value) = Len(b.value) /\ StrLess(a.key, b.key)

RECURSIVE sort_reverse(_)
\* sorted(..., reverse=True): the largest key first
sort_reverse(entries) ==
    IF entries = <<>> THEN <<>>
    ELSE LET first(top) ==
                 <<entries[top]>> \o
                 sort_reverse(SubSeq(entries, 1, top - 1) \o SubSeq(entries, top + 1, Len(entries)))
         IN  first(CHOOSE i \in 1..Len(entries) :
                      \A j \in 1..Len(entries) : j # i => key_less(entries[j], entries[i]))

filter_and_sort_categories(cats) ==
    sort_reverse(SelectSeq(cats, LAMBDA e : Len(e.value) >= MinItems))

\* the clustering refinement runs for more than this many bookmarks
MlMinBookmarks == 10

\* the five strategy results handed to the merge with the lowest priority first
strategy_results_reversed(all_bookmarks) ==
    << categorize_by_tld(all_bookmarks), categorize_by_folder(all_bookmarks),
       categorize_by_path(all_bookmarks), categorize_by_title(all_bookmarks),
       categorize_by_domain(all_bookmarks) >>

\* the five strategy results in the order categorize hands them to the merge:
\* domain, title, path, folder, tld
strategy_results(all_bookmarks) ==
    << categorize_by_domain(all_bookmarks), categorize_by_title(all_bookmarks),
       categorize_by_path(all_bookmarks), categorize_by_folder(all_bookmarks),
       categorize_by_tld(all_bookmarks) >>

(***************************************************************************)
(* BookmarkOrganizer._create_subfolders                                    *)
(***************************************************************************)
\* a grouping is used when it has between MinGroups and MaxGroups groups
MinGroups == 2
MaxGroups == 10

\* _format_domain_name: the first label of the domain, capitalized
format_domain_name(domain) ==
    LET \* str.capitalize()
        capitalize(s) == [i \in 1..Len(s) |-> IF i = 1 THEN UpperChar(s[i]) ELSE LowerChar(s[i])]
        first_label(name_parts) == capitalize(IF Len(name_parts) > 1 THEN name_parts[1] ELSE domain)
    IN  first_label(Split(domain, "."))

RECURSIVE group_by_domain(_, _)
\* domain_groups[domain].append(bookmark) for the bookmarks with a URL and a domain
group_by_domain(bookmarks, domain_groups) ==
    IF bookmarks = <<>> THEN domain_groups
    ELSE LET url == Get(bookmarks[1], "url", <<>>)
             added(domain) == IF url = <<>> \/ domain = <<>> THEN domain_groups
                              ELSE DictAppend(domain_groups, domain, bookmarks[1])
         IN  group_by_domain(Tail(bookmarks), added(extract_domain(url)))

RECURSIVE rename_groups(_, _, _)
\* the dict comprehension {name: value for key, value in groups.items()}, names[i] the
\* name made from the key of groups[i]
rename_groups(groups, names, renamed) ==
    IF groups = <<>> THEN renamed
    ELSE rename_groups(Tail(groups), Tail(names), DictSet(renamed, names[1], groups[1].value))

\* the last label of a domain, "other" for a domain without a dot
tld_of(domain) ==
    LET last(labels) == labels[Len(labels)]
    IN  IF Find(domain, ".") >= 0 THEN last(Split(domain, ".")) ELSE <<"o","t","h","e","r">>

RECURSIVE group_by_tld(_, _)
\* tld_groups[tld].extend(domain_bookmarks) for every domain group
group_by_tld(domain_groups, tld_groups) ==
    IF domain_groups = <<>> THEN tld_groups
    ELSE group_by_tld(Tail(domain_groups),
                      DictExtend(tld_groups, tld_of(domain_groups[1].key), domain_groups[1].value))

\* a name that keeps the case of the TLD
tld_folder_name_lower(tld) == tld \o <<" ","S","i","t","e","s">>

\* f"{tld.upper()} Sites"
tld_folder_name(tld) == Upper(tld) \o <<" ","S","i","t","e","s">>

\* the bucket of a title: its first letter in upper case, "#" for any other character
first_letter(title) == IF IsAlpha(UpperChar(title[1])) THEN <<UpperChar(title[1])>> ELSE <<"#">>

RECURSIVE group_by_letter(_, _)
\* alpha_groups[first_letter].append(bookmark) for the bookmarks with a title
group_by_letter(bookmarks, alpha_groups) ==
    IF bookmarks = <<>> THEN alpha_groups
    ELSE LET title == Get(bookmarks[1], "title", <<>>)
         IN  group_by_letter(Tail(bookmarks),
                             IF title = <<>> THEN alpha_groups
                             ELSE DictAppend(alpha_groups, first_letter(title), bookmarks[1]))

RECURSIVE sort_by_key(_)
\* sorted(alpha_groups.items()): the keys are distinct, the smallest first
sort_by_key(entries) ==
    IF entries = <<>> THEN <<>>
    ELSE LET first(low) ==
                 <<entries[low]>> \o
                 sort_by_key(SubSeq(entries, 1, low - 1) \o SubSeq(entries, low + 1, Len(entries)))
         IN  first(CHOOSE i \in 1..Len(entries) :
                      \A j \in 1..Len(entries) : j # i => StrLess(entries[i].key, entries[j].key))

\* no combining: each letter is a bucket
combine_groups_each_letter(sorted_groups, max_per_folder, final_groups, current_group, current_name) ==
    sorted_groups

RECURSIVE combine_groups(_, _, _, _, _)
\* "Combine small groups": the loop over the sorted letters and the last group
combine_groups(sorted_groups, max_per_folder, final_groups, current_group, current_name) ==
    IF sorted_groups = <<>>
    THEN IF current_group # <<>> THEN DictSet(final_groups, current_name, current_group)
         ELSE final_groups
    ELSE LET letter == sorted_groups[1].key
             group == sorted_groups[1].value
         IN  IF Len(current_group) + Len(group) <= max_per_folder
             THEN combine_groups(Tail(sorted_groups), max_per_folder, final_groups,
                                 current_group \o group,
                                 IF current_name # <<>> THEN current_name \o <<"-">> \o letter
                                 ELSE letter)
             ELSE combine_groups(Tail(sorted_groups), max_per_folder,
                                 IF current_group # <<>>
                                 THEN DictSet(final_groups, current_name, current_group)
                                 ELSE final_groups,
                                 group, letter)

create_subfolders(bookmarks, max_per_folder) ==
    LET grouped(domain_groups, tld_groups) ==
            IF MinGroups <= Len(domain_groups) /\ Len(domain_groups) <= MaxGroups
            THEN rename_groups(domain_groups,
                               [i \in 1..Len(domain_groups) |->
                                   format_domain_name(domain_groups[i].key)], <<>>)
            ELSE IF Len(domain_groups) > MaxGroups
                    /\ MinGroups <= Len(tld_groups) /\ Len(tld_groups) <= MaxGroups
            THEN rename_groups(tld_groups,
                               [i \in 1..Len(tld_groups) |-> tld_folder_name(tld_groups[i].key)],
                               <<>>)
            ELSE combine_groups(sort_by_key(group_by_letter(bookmarks, <<>>)), max_per_folder,
                                <<>>, <<>>, <<>>)
        by_domain(domain_groups) == grouped(domain_groups, group_by_tld(domain_groups, <<>>))
    IN  by_domain(group_by_domain(bookmarks, <<>>))

(***************************************************************************)
(* BookmarkOrganizer._sort_folders                                         *)
(***************************************************************************)
\* a sort key that leaves the case of the title as it is
title_key_raw(obj) == obj.title

\* the sort key of a child: x['title'].lower()
title_key(obj) == Lower(obj.title)

RECURSIVE sort_by_title(_, _)
\* list.sort(key=...) is stable: each child goes behind the children that are not
\* greater than it
sort_by_title(h, ids) ==
    IF ids = <<>> THEN <<>>
    ELSE LET inserted(front, x, n) == SubSeq(front, 1, n) \o <<x>> \o SubSeq(front, n + 1, Len(front))
             behind(front, x, key) ==
                 inserted(front, x, Cardinality({i \in 1..Len(front) :
                                                    ~StrLess(key, title_key(h[front[i]]))}))
             last(front, x) == behind(front, x, title_key(h[x]))
         IN  last(sort_by_title(h, SubSeq(ids, 1, Len(ids) - 1)), ids[Len(ids)])

RECURSIVE sort_folders(_, _)
RECURSIVE sort_subfolders(_, _)
\* "for subfolder in folders: self._sort_folders(subfolder)"
sort_subfolders(h, folders) ==
    IF folders = <<>> THEN h
    ELSE sort_subfolders(sort_folders(h, folders[1]), Tail(folders))

sort_folders(h, folder) ==
    IF h[folder].type # "folder" THEN h
    ELSE LET children == Get(h[folder], "children", <<>>)
             sorted(folders, bookmarks) ==
                 sort_subfolders([h EXCEPT ![folder].children = folders \o bookmarks], folders)
         IN  sorted(sort_by_title(h, SelectSeq(children, LAMBDA c : h[c].type = "folder")),
                    sort_by_title(h, SelectSeq(children, LAMBDA c : h[c].type = "bookmark")))

(***************************************************************************)
(* BookmarkOrganizer.organize                                              *)
(***************************************************************************)
s_Uncategorized == <<"U","n","c","a","t","e","g","o","r","i","z","e","d">>

\* max_bookmarks_per_folder when the caller gives none
DefaultMaxPerFolder == 50

RECURSIVE index_by_url(_, _)
\* all_urls: {url: bookmark for bookmark in all_bookmarks if url}
index_by_url(all_bookmarks, all_urls) ==
    IF all_bookmarks = <<>> THEN all_urls
    ELSE LET url == Get(all_bookmarks[1], "url", <<>>)
         IN  index_by_url(Tail(all_bookmarks),
                          IF url = <<>> THEN all_urls ELSE DictSet(all_urls, url, all_bookmarks[1]))

\* the members of a list that organize places: "if url and url in all_urls"
placeable(items, all_urls) ==
    SelectSeq(items, LAMBDA b : Get(b, "url", <<>>) # <<>> /\ DictHas(all_urls, Get(b, "url", <<>>)))

\* copy.deepcopy(all_urls[url]) for each of them, in order
placed(items, all_urls) ==
    LET copies(chosen) == [i \in 1..Len(chosen) |-> DictGet(all_urls, chosen[i].url)]
    IN  copies(placeable(items, all_urls))

\* a synthesized folder, its children given as dicts
folder_dict(title, children, dateAdded) ==
    [type |-> "folder", title |-> title, children |-> children, dateAdded |-> dateAdded]

\* the subfolders of a category that is split, the empty ones left out
subfolder_dicts(subfolders, all_urls, dateAdded) ==
    SelectSeq([i \in 1..Len(subfolders) |->
                  folder_dict(subfolders[i].key, placed(subfolders[i].value, all_urls), dateAdded)],
              LAMBDA f : f.children # <<>>)

\* the folder of one category: split into subfolders when it is over the limit
category_folder(name, bookmarks_in_category, all_urls, max_per_folder, dateAdded) ==
    IF Len(bookmarks_in_category) > max_per_folder
    THEN folder_dict(name,
                     subfolder_dicts(create_subfolders(bookmarks_in_category, max_per_folder),
                                     all_urls, dateAdded),
                     dateAdded)
    ELSE folder_dict(name, placed(bookmarks_in_category, all_urls), dateAdded)

\* the URLs one category adds to assigned_urls
category_assigned(bookmarks_in_category, all_urls, max_per_folder) ==
    IF Len(bookmarks_in_category) > max_per_folder
    THEN LET urls_in(subfolders) ==
                 UNION {{b.url : b \in Range(placeable(subfolders[i].value, all_urls))} :
                            i \in 1..Len(subfolders)}
         IN  urls_in(create_subfolders(bookmarks_in_category, max_per_folder))
    ELSE {b.url : b \in Range(placeable(bookmarks_in_category, all_urls))}

\* the category folders organize adds: the categories with members, the folders
\* that end up with children
category_folders(cats, all_urls, max_per_folder, dateAdded) ==
    SelectSeq([c \in 1..Len(cats) |->
                  category_folder(cats[c].key, cats[c].value, all_urls, max_per_folder, dateAdded)],
              LAMBDA f : f.children # <<>>)

assigned_urls(cats, all_urls, max_per_folder) ==
    UNION {category_assigned(cats[c].value, all_urls, max_per_folder) : c \in 1..Len(cats)}

\* the bookmarks of all_urls no category has taken
uncategorized_of(cats, all_urls, max_per_folder) ==
    LET values(left) == [i \in 1..Len(left) |-> left[i].value]
        unassigned(assigned) == values(SelectSeq(all_urls, LAMBDA e : e.key \notin assigned))
    IN  unassigned(assigned_urls(cats, all_urls, max_per_folder))

RECURSIVE alloc(_, _)
RECURSIVE alloc_list(_, _)
\* the new dicts become objects of the heap, the children before their folder
alloc_list(h, dicts) ==
    IF dicts = <<>> THEN [heap |-> h, ids |-> <<>>]
    ELSE LET both(first, rest) == [heap |-> rest.heap, ids |-> <<first.id>> \o rest.ids]
             others(first) == both(first, alloc_list(first.heap, Tail(dicts)))
         IN  others(alloc(h, dicts[1]))

alloc(h, dict) ==
    IF dict.type = "folder"
    THEN LET folder(kids) == [heap |-> Append(kids.heap, [dict EXCEPT !.children = kids.ids]),
                                  id |-> Len(kids.heap) + 1]
         IN  folder(alloc_list(h, dict.children))
    ELSE [heap |-> Append(h, dict), id |-> Len(h) + 1]

\* the root keeps none of its children
root_children_fresh(children, preserve_existing) == <<>>

\* root_children before the category folders are added: the children of the copy
\* when the existing structure is preserved, an empty list otherwise
root_children(children, preserve_existing) ==
    IF preserve_existing THEN children ELSE <<>>

\* The steps of organize are the operators below, the last step first: the copy and
\* all_urls are made, the category folders and "Uncategorized" are built, they become
\* the children of the copy (behind its own children when those are preserved), and
\* the tree is sorted.
organize(h, bookmarks, cats, max_bookmarks_per_folder, preserve_existing) ==
    LET attached(organized, new) ==
            [heap |-> sort_folders(
                          [new.heap EXCEPT ![organized].children =
                              root_children(@, preserve_existing) \o new.ids],
                          organized),
             id |-> organized]
        with_uncategorized(all_urls, dateAdded, uncategorized) ==
            category_folders(cats, all_urls, max_bookmarks_per_folder, dateAdded)
            \o (IF uncategorized # <<>>
                THEN <<folder_dict(s_Uncategorized, uncategorized, dateAdded)>> ELSE <<>>)
        new_folders(all_urls, dateAdded) ==
            with_uncategorized(all_urls, dateAdded,
                               uncategorized_of(cats, all_urls, max_bookmarks_per_folder))
        organized_from(copy, all_urls) ==
            attached(copy.id,
                     alloc_list(copy.heap,
                                new_folders(all_urls, Get(copy.heap[copy.id], "dateAdded", 0))))
    IN  organized_from(deepcopy(h, bookmarks), index_by_url(flatten(h, bookmarks), <<>>))

(***************************************************************************)
(* The program: parse the input file, then run one of the operations of    *)
(* main.py on the parsed tree                                              *)
(***************************************************************************)
TreeInit ==
    /\ heap = <<root_folder>>
    /\ open = <<RootId>>
    /\ pos = 0
    /\ phase = "parse"
    /\ merged_categories = <<>>
    /\ categories = <<>>
    /\ duplicates = <<>>
    /\ broken_links = <<>>
    /\ args = [none |-> TRUE]
    /\ result = 0
    /\ raised = FALSE
    /\ heap0 = <<>>
    /\ futures = <<>>
    /\ html = <<>>

Init ==
    /\ TreeInit
    /\ nurl = <<>>
    /\ nres = <<>>

\* The parser is in the folders of `open`.  The next element of the file goes into
\* one of them, the parser having returned from the folders inside it.
\* _process_chrome_folder meets a folder header: the folder is added and entered
OpenFolder ==
    /\ phase = "parse"
    /\ Cardinality(Nodes(heap, RootId)) <= MaxNodes
    /\ \E title \in FolderTitles, j \in 1..Len(open) :
          /\ heap' = append_child(heap, open[j], new_folder(title))
          /\ open' = Append(SubSeq(open, 1, j), Len(heap) + 1)
    /\ UNCHANGED <<pos, phase, merged_categories, categories, duplicates, broken_links,
                   args, result, raised, heap0, nurl, nres, futures, html>>

\* _add_bookmark_from_anchor: the next anchor of the file is added to its folder,
\* unless it is one the parser skips
AddBookmark ==
    /\ phase = "parse"
    /\ Cardinality(Nodes(heap, RootId)) <= MaxNodes
    /\ \E k \in (pos + 1)..Len(Anchors), j \in 1..Len(open) :
          /\ pos' = k
          /\ IF is_skipped(Anchors[k].url)
             THEN UNCHANGED <<heap, open>>
             ELSE /\ heap' = append_child(heap, open[j], bookmark_of(Anchors[k]))
                  /\ open' = SubSeq(open, 1, j)
    /\ UNCHANGED <<phase, merged_categories, categories, duplicates, broken_links,
                   args, result, raised, heap0, nurl, nres, futures, html>>

\* the caller's tree gets its bookmark without a URL, in one of the open folders
AddPassenger ==
    /\ phase = "parse"
    /\ Cardinality(Nodes(heap, RootId)) <= MaxNodes
    /\ \A n \in Nodes(heap, RootId) : heap[n] # passenger
    /\ \E j \in 1..Len(open) :
          /\ heap' = append_child(heap, open[j], passenger)
          /\ open' = SubSeq(open, 1, j)
    /\ UNCHANGED <<pos, phase, merged_categories, categories, duplicates, broken_links,
                   args, result, raised, heap0, nurl, nres, futures, html>>

\* parse_html returns root_folder: the tree is complete
ParseHtml ==
    /\ phase = "parse"
    /\ phase' = "parsed"
    /\ open' = <<>>
    /\ pos' = 0
    /\ UNCHANGED <<heap, merged_categories, categories, duplicates, broken_links, args, result,
                   raised, heap0, nurl, nres, futures, html>>

\* the records of the bookmarks whose URL the link check found broken
broken_records(h, bookmarks, urls) ==
    LET records(found) ==
            [i \in 1..Len(found) |-> ("status" :> <<"H","T","T","P"," ","4","0","4">>) @@ found[i]]
    IN  records(SelectSeq(flatten(h, bookmarks), LAMBDA b : Get(b, "url", <<>>) \in urls))

\* organizer.remove_broken_links(bookmarks, broken_links), the broken links being
\* those of any of the URLs the link check takes: it leaves out a bookmark without URL
RemoveBrokenLinks ==
    /\ phase = "parsed"
    /\ \E urls \in SUBSET ({Get(b, "url", <<>>) : b \in Range(flatten(heap, RootId))} \ {<<>>}) :
          /\ broken_links' = broken_records(heap, RootId, urls)
          /\ \E r \in {remove_broken_links(heap, RootId, broken_links')} :
                /\ heap' = r.heap
                /\ result' = r.id
    /\ phase' = "cleaned"
    /\ heap0' = heap
    /\ UNCHANGED <<open, pos, merged_categories, categories, duplicates, args, raised,
                   nurl, nres, futures, html>>

\* validator.find_duplicates(bookmarks)
FindDuplicates ==
    /\ phase = "parsed"
    /\ \E url_normalize \in BOOLEAN :
          /\ duplicates' = find_duplicates(heap, RootId, url_normalize)
          /\ args' = [url_normalize |-> url_normalize]
    /\ phase' = "duplicates"
    /\ UNCHANGED <<heap, open, pos, merged_categories, categories, broken_links, result,
                   raised, heap0, nurl, nres, futures, html>>

\* organizer.merge_duplicates(bookmarks, duplicates)
MergeDuplicates ==
    /\ phase = "duplicates"
    /\ IF merge_raises(duplicates)
       THEN /\ raised' = TRUE
            /\ UNCHANGED <<heap, result>>
       ELSE \E r \in {merge_duplicates(heap, RootId, duplicates)} :
                /\ heap' = r.heap
                /\ result' = r.id
                /\ UNCHANGED raised
    /\ phase' = "merged"
    /\ heap0' = heap
    /\ UNCHANGED <<open, pos, merged_categories, categories, duplicates, broken_links, args,
                   nurl, nres, futures, html>>

\* analyzer.categorize(bookmarks).  The clustering refinement needs more than
\* MlMinBookmarks bookmarks, which the trees of this model do not have.
Categorize ==
    /\ phase = "parsed"
    /\ Len(flatten(heap, RootId)) <= MlMinBookmarks
    /\ merged_categories' = merge_categories(strategy_results(flatten(heap, RootId)))
    /\ categories' = filter_and_sort_categories(merged_categories')
    /\ phase' = "categorized"
    /\ UNCHANGED <<heap, open, pos, duplicates, broken_links, args, result, raised, heap0,
                   nurl, nres, futures, html>>

\* organizer.organize(bookmarks, categories, max_bookmarks_per_folder, preserve_existing)
Organize ==
    /\ phase = "categorized"
    /\ \E max_bookmarks_per_folder \in {1, DefaultMaxPerFolder}, preserve_existing \in BOOLEAN :
          \E r \in {organize(heap, RootId, categories, max_bookmarks_per_folder, preserve_existing)} :
              /\ heap' = r.heap
              /\ result' = r.id
              /\ args' = [max_bookmarks_per_folder |-> max_bookmarks_per_folder,
                          preserve_existing |-> preserve_existing]
    /\ phase' = "organized"
    /\ heap0' = heap
    /\ UNCHANGED <<open, pos, merged_categories, categories, duplicates, broken_links, raised,
                   nurl, nres, futures, html>>

(***************************************************************************)
(* BookmarkExporter: the lines of the HTML bookmark file                   *)
(***************************************************************************)
\* _write_bookmark_html(f, bookmark_data, indent): the lines written for the node.
\* A folder reached with indent 1 writes its children with the same indent and no
\* header; any other folder writes its header, its children one level deeper
\* between <DL><p> and </DL><p>.  A bookmark writes its anchor.
RECURSIVE write_bookmark_html(_, _, _)
write_bookmark_html(h, bookmark_data, indent) ==
    LET escape_char(c) ==
            CASE c = "&" -> <<"&","a","m","p",";">>
              [] c = "<" -> <<"&","l","t",";">>
              [] c = ">" -> <<"&","g","t",";">>
              [] c = "\"" -> <<"&","q","u","o","t",";">>
              [] c = "'" -> <<"&","#","3","9",";">>
              [] OTHER -> <<c>>
        escape_html(text) == Concat([i \in 1..Len(text) |-> escape_char(text[i])])
        node == h[bookmark_data]
        children == Get(node, "children", <<>>)
        date_added == Get(node, "dateAdded", 0) \div 1000
        last_modified == Get(node, "lastModified", date_added) \div 1000
        written(level) ==
            Concat([i \in 1..Len(children) |-> write_bookmark_html(h, children[i], level)])
        anchor ==
            [tag |-> "A", indent |-> indent, href |-> Get(node, "url", <<>>),
             add_date |-> date_added,
             text |-> escape_html(Get(node, "title", Get(node, "url", <<>>)))]
        with_icon(line) ==
            IF Get(node, "icon", <<>>) # <<>> THEN ("icon" :> node.icon) @@ line ELSE line
        with_modified(line) ==
            IF last_modified # 0 /\ last_modified # date_added
            THEN ("last_modified" :> last_modified) @@ line ELSE line
        with_tags(line) ==
            IF Get(node, "tags", <<>>) # <<>>
            THEN ("tags" :> Join(node.tags, ",")) @@ line ELSE line
    IN  IF indent = 1 /\ node.type = "folder" THEN written(indent)
        ELSE IF node.type = "folder"
        THEN <<[tag |-> "H3", indent |-> indent, add_date |-> date_added,
                last_modified |-> last_modified, text |-> escape_html(node.title)],
               [tag |-> "DL", indent |-> indent]>>
             \o written(indent + 1)
             \o <<[tag |-> "/DL", indent |-> indent]>>
        ELSE <<with_tags(with_modified(with_icon(anchor)))>>

\* exporter.export_html(bookmarks, output_path) on the parsed tree
ExportHtml ==
    /\ phase = "parsed"
    /\ html' = write_bookmark_html(heap, RootId, 1)
    /\ args' = [bookmarks |-> RootId]
    /\ phase' = "exported"
    /\ UNCHANGED <<heap, open, pos, merged_categories, categories, duplicates, broken_links,
                   result, raised, heap0, nurl, nres, futures>>

Next ==
    \/ OpenFolder
    \/ AddBookmark
    \/ AddPassenger
    \/ ParseHtml
    \/ RemoveBrokenLinks
    \/ FindDuplicates
    \/ MergeDuplicates
    \/ Categorize
    \/ Organize
    \/ ExportHtml

Spec == Init /\ [][Next]_vars

(***************************************************************************)
(* The URLs the normalizer is run on                                       *)
(***************************************************************************)
UrlInputs ==
    LET UrlSchemes == { <<>>, <<"h","t","t","p",":","/","/">>, s_https, <<"H","T","T","P",":","/","/">> }
        UrlPrefixes == { <<>>, s_www, s_www \o s_www, <<"W","w","W",".">> }
        UrlHosts == { <<"a",".","c","o","m">>, <<"B",".","i","o">>, s_youtube_com, s_youtu_be }
        UrlPaths == { <<>>, <<"/">>, <<"/","p">>, <<"/","p","/","/">>, <<"/","w","a","t","c","h">> }
        UrlQueries == {
            <<>>,
            <<"?","i","d","=","5">>,
            <<"?","u","t","m","_","s","o","u","r","c","e","=","x","&","i","d","=","5">>,
            <<"?","i","d","=","5","&","U","T","M","_","S","o","u","r","c","e","=","x","&","k","=","1">>,
            <<"?","r","e","f","=","r">>,
            <<"?","f","l","a","g","&","i","d","=","5">>,
            <<"?","v","=","a","b","c","&","l","i","s","t","=","x","y","z">>,
            <<"?","l","i","s","t","=","x","y","z","&","v","=","a","b","c">>,
            <<"?","l","i","s","t","=","x","y","z">>,
            <<"?","v","=","a","=","b">>,
            <<"?","i","d","=","5","#","f">> }
    IN  { s \o p \o h \o pa \o q : s \in UrlSchemes, p \in UrlPrefixes, h \in UrlHosts, pa \in UrlPaths, q \in UrlQueries }

\* how often the normalizer is applied to its own result
MaxNormalize == 2

NormInit ==
    /\ TreeInit
    /\ nurl \in UrlInputs
    /\ nres = <<>>

\* one call of _normalize_url, on the URL or on the previous result
Normalize ==
    /\ Len(nres) < MaxNormalize
    /\ nres' = Append(nres, normalize_url(IF nres = <<>> THEN nurl ELSE nres[Len(nres)]))
    /\ UNCHANGED nurl
    /\ UNCHANGED treeVars

NormNext == Normalize

NormSpec == NormInit /\ [][NormNext]_vars

(***************************************************************************)
(* The categorizer: properties of the strategy merge                       *)
(***************************************************************************)
\* C4: in the mapping produced by the strategy merge no URL appears in two different
\* categories, no URL appears twice within one category, and no bookmark with an
\* empty URL appears in any category.
C4_merge_disjoint ==
    \A c1, c2 \in 1..Len(merged_categories) :
        \A i \in 1..Len(merged_categories[c1].value), j \in 1..Len(merged_categories[c2].value) :
            /\ merged_categories[c1].value[i].url # <<>>
            /\ (c1 # c2 \/ i # j) =>
                  merged_categories[c1].value[i].url # merged_categories[c2].value[j].url

\* C4 witness: the tree holds two bookmarks with one URL that the domain strategy
\* matches, one of them matched by the title strategy as well, and the merge has run.
C4_witness ==
    /\ phase = "categorized"
    /\ \E i, j \in 1..Len(flatten(heap, RootId)) :
          /\ i # j
          /\ flatten(heap, RootId)[i].url = flatten(heap, RootId)[j].url
          /\ domain_category(flatten(heap, RootId)[i]) # <<>>
          /\ title_category(flatten(heap, RootId)[i]) # <<>>
    /\ merged_categories # <<>>

C1_organize_conserves_bookmarks ==
    phase = "organized" => count_bookmarks(heap, result) = count_bookmarks(heap0, RootId)

\* C8: in the tree returned by organize every folder at every depth has its
\* subfolders first and its bookmarks after them, each of the two runs ascending by
\* lowercased title.
C8_children_sorted ==
    phase = "organized" =>
        \A f \in Nodes(heap, result) :
            heap[f].type = "folder" =>
                \A i \in 1..(Len(heap[f].children) - 1) :
                    LET x == heap[heap[f].children[i]]
                        y == heap[heap[f].children[i + 1]]
                    IN  /\ ~(x.type = "bookmark" /\ y.type = "folder")
                        /\ x.type = y.type => ~StrLess(Lower(y.title), Lower(x.title))

\* C8 witness: organize has returned a tree in which a folder below the root holds two
\* children of one type whose titles order one way as written and the other way in
\* lower case.
C8_witness ==
    /\ phase = "organized"
    /\ \E f \in Nodes(heap, result) \ {result} :
          /\ heap[f].type = "folder"
          /\ \E i, j \in 1..Len(heap[f].children) :
                LET x == heap[heap[f].children[i]]
                    y == heap[heap[f].children[j]]
                IN  /\ i < j
                    /\ x.type = y.type
                    /\ StrLess(Lower(x.title), Lower(y.title))
                    /\ StrLess(y.title, x.title)

\* C6: after remove_broken_links no bookmark of the returned tree, at any depth, has
\* a URL of the broken set; the bookmarks with other URLs are all there, in their
\* folders and in their order; and the tree has as many folders as the input.
C6_broken_removed_folders_kept ==
    phase = "cleaned" =>
        LET broken_urls == {Get(r, "url", <<>>) : r \in Range(broken_links)}
        IN  /\ \A n \in Nodes(heap, result) :
                  heap[n].type = "bookmark" => heap[n].url \notin broken_urls
            /\ flatten(heap, result)
                 = SelectSeq(flatten(heap0, RootId), LAMBDA b : b.url \notin broken_urls)
            /\ count_folders(heap, result) = count_folders(heap0, RootId)

\* C6 witness: a broken bookmark was the only child of a folder below the root, a
\* bookmark with another URL is kept, and remove_broken_links has returned.
C6_witness ==
    /\ phase = "cleaned"
    /\ \E f \in Nodes(heap0, RootId) \ {RootId} :
          /\ heap0[f].type = "folder"
          /\ Len(heap0[f].children) = 1
          /\ heap0[heap0[f].children[1]].type = "bookmark"
          /\ heap0[heap0[f].children[1]].url \in {Get(r, "url", <<>>) : r \in Range(broken_links)}
    /\ flatten(heap, result) # <<>>

\* C7: organize, remove_broken_links and merge_duplicates leave every node of the
\* caller's tree as it was, and the tree they return shares no node with it.
C7_input_untouched_no_alias ==
    phase \in {"organized", "cleaned", "merged"} =>
        /\ \A n \in Nodes(heap0, RootId) : heap[n] = heap0[n]
        /\ result # 0 => Nodes(heap, result) \cap Nodes(heap0, RootId) = {}

\* C7 witness: an operation has returned a tree that differs from the tree it was
\* given, which holds a folder below the root.
C7_witness ==
    /\ phase \in {"organized", "cleaned", "merged"}
    /\ result # 0
    /\ count_folders(heap0, RootId) > 0
    /\ flatten(heap, result) # flatten(heap0, RootId)

\* C2: after merge_duplicates(tree, find_duplicates(tree)) exactly one member of every
\* duplicate group is a bookmark of the returned tree.
C2_one_survivor_per_group ==
    (phase = "merged" /\ ~raised) =>
        \A g \in 1..Len(duplicates) :
            Cardinality({i \in 1..Len(flatten(heap, result)) :
                            flatten(heap, result)[i] \in Range(duplicates[g].value)}) = 1

\* C3: when two members of a duplicate group have the same score and differ in some
\* field, merge_duplicates returns without raising.
C3_ties_do_not_raise ==
    (/\ phase = "merged"
     /\ \E g \in 1..Len(duplicates) :
           \E i, j \in 1..Len(duplicates[g].value) :
               /\ score(duplicates[g].value[i]) = score(duplicates[g].value[j])
               /\ duplicates[g].value[i] # duplicates[g].value[j])
        => ~raised

(***************************************************************************)
(* The normalizer                                                          *)
(***************************************************************************)
\* C9: normalizing a normalized URL gives the same URL again.
C9_normalize_idempotent ==
    Len(nres) = 2 => nres[2] = nres[1]

\* C10: for a URL on a non-video host the query of the normalized URL is the
\* original parameters whose lowercased name is no tracking parameter, in their order.
C10_only_tracking_params_dropped ==
    (Len(nres) >= 1 /\ ~is_video_host(strip_www(urlparse(nurl).netloc))) =>
        urlparse(nres[1]).query
            = Join(SelectSeq(Split(urlparse(nurl).query, "&"),
                             LAMBDA param : Lower(Split(param, "=")[1]) \notin tracking_params),
                   "&")

(***************************************************************************)
(* The normalizer: the video special case                                  *)
(***************************************************************************)
\* C11: for a URL whose host contains youtube.com or youtu.be, the query of the
\* normalized URL is a single v parameter of the original query when the query has a
\* v parameter, and the normalized URL has no query when it has none.
C11_video_query_collapsed ==
    (Len(nres) >= 1 /\ is_video_host(strip_www(urlparse(nurl).netloc))) =>
        LET v_params == {param \in Range(Split(urlparse(nurl).query, "&")) :
                            StartsWith(param, s_v_eq)}
        IN  IF v_params # {} THEN urlparse(nres[1]).query \in v_params
            ELSE urlparse(nres[1]).query = <<>>

(***************************************************************************)
(* The duplicate detector                                                  *)
(***************************************************************************)
\* C12: find_duplicates returns groups of two members or more; the bookmarks with a
\* URL are grouped by their key (the normalized URL when url_normalize is on, the raw
\* URL otherwise), each key that two bookmarks share being the key of exactly one
\* group that holds all the bookmarks with it; and with url_normalize on, two URLs
\* that differ only by the scheme http/https, a leading "www.", the case of the host
\* or trailing slashes of the path have the same key.
C12_groups_by_key ==
    phase = "duplicates" =>
        LET with_url == SelectSeq(flatten(heap, RootId), LAMBDA b : Get(b, "url", <<>>) # <<>>)
            key(b) == IF args.url_normalize THEN normalize_url(b.url) ELSE b.url
            web(u) == urlparse(u).scheme \in {<<"h","t","t","p">>, <<"h","t","t","p","s">>}
            host(u) == Lower(urlparse(u).netloc)
            rest(u) == [urlparse(u) EXCEPT !.scheme = <<>>, !.netloc = <<>>,
                                           !.path = RStripSlash(@)]
            same_resource(u1, u2) ==
                /\ web(u1) /\ web(u2)
                /\ \/ host(u1) = host(u2)
                   \/ host(u1) = s_www \o host(u2)
                   \/ host(u2) = s_www \o host(u1)
                /\ rest(u1) = rest(u2)
        IN  /\ \A g \in 1..Len(duplicates) : Len(duplicates[g].value) >= 2
            /\ \A g1, g2 \in 1..Len(duplicates) :
                  duplicates[g1].key = duplicates[g2].key => g1 = g2
            /\ \A g \in 1..Len(duplicates) :
                  duplicates[g].value
                      = SelectSeq(with_url, LAMBDA b : key(b) = duplicates[g].key)
            /\ \A i, j \in 1..Len(with_url) :
                  (i # j /\ key(with_url[i]) = key(with_url[j]))
                      => \E g \in 1..Len(duplicates) : duplicates[g].key = key(with_url[i])
            /\ args.url_normalize =>
                  \A i, j \in 1..Len(with_url) :
                      same_resource(with_url[i].url, with_url[j].url)
                          => key(with_url[i]) = key(with_url[j])

(***************************************************************************)
(* The flattening of a tree                                                *)
(***************************************************************************)
\* C13: when categorize has flattened the tree it was given, the flattening has
\* exactly one entry per bookmark node; the entry of a node is the node's own fields
\* with folderPath the titles of its ancestor folders from the root down; the entries
\* stand in depth-first pre-order, the children of a folder in their order; folders
\* give no entry; and the nodes of the tree have not been given a folderPath.
C13_flatten_preorder ==
    phase = "categorized" =>
        LET in_tree == Nodes(heap, RootId)
            bookmark_nodes == {n \in in_tree : heap[n].type = "bookmark"}
            parent(n) == CHOOSE p \in in_tree :
                            heap[p].type = "folder" /\ n \in Range(heap[p].children)
            RECURSIVE ancestors(_)
            \* the folders above a node, the root first
            ancestors(n) == IF n = RootId THEN <<>> ELSE Append(ancestors(parent(n)), parent(n))
            \* the children the way from the root to a node goes through
            way(n) == Tail(Append(ancestors(n), n))
            child_index(p, c) == CHOOSE k \in 1..Len(heap[p].children) : heap[p].children[k] = c
            \* m is met before n: where their ways part, the way to m takes the earlier child
            before(m, n) ==
                \E k \in 1..Len(way(m)) :
                    /\ k <= Len(way(n))
                    /\ SubSeq(way(m), 1, k - 1) = SubSeq(way(n), 1, k - 1)
                    /\ way(m)[k] # way(n)[k]
                    /\ child_index(ancestors(m)[k], way(m)[k])
                          < child_index(ancestors(n)[k], way(n)[k])
            rank(n) == Cardinality({m \in bookmark_nodes : before(m, n)}) + 1
            flat == flatten(heap, RootId)
        IN  /\ Len(flat) = Cardinality(bookmark_nodes)
            /\ \A n \in bookmark_nodes :
                  /\ flat[rank(n)] =
                        ("folderPath" :> [k \in 1..Len(ancestors(n)) |-> heap[ancestors(n)[k]].title])
                        @@ heap[n]
                  /\ Len(flat[rank(n)].folderPath) = Len(ancestors(n))
            /\ \A n \in in_tree : "folderPath" \notin DOMAIN heap[n]

\* C13 witness: categorize has flattened a tree in which a bookmark inside a folder
\* stands before a bookmark of the root, and both are in the merged mapping with
\* their folder paths.
C13_witness ==
    /\ phase = "categorized"
    /\ \E i, j \in 1..Len(flatten(heap, RootId)) :
          /\ i < j
          /\ Len(flatten(heap, RootId)[i].folderPath) = 2
          /\ Len(flatten(heap, RootId)[j].folderPath) = 1
    /\ {Len(b.folderPath) : b \in UNION {Range(merged_categories[c].value) :
                                             c \in 1..Len(merged_categories)}} = {1, 2}

(***************************************************************************)
(* The categorizer: _filter_and_sort_categories on the mappings the merge  *)
(* hands to it                                                             *)
(***************************************************************************)
\* a merged category holds at most this many bookmarks
MaxCategoryItems == 3

\* The folders below the root whose bookmarks no other strategy matches: the folder
\* strategy makes a category of each of them, named after the folder.
CategoryFolders == FolderTitles \cup { <<"a","p","p","s">> }     \* Zed, dev, apps

\* the k-th bookmark "a2" at http://z.com/<k> of a folder below the root, as flattened
category_item(folder, k) ==
    with_path(bookmark_of([title |-> <<"a","2">>,
                           url |-> <<"h","t","t","p",":","/","/","z",".","c","o","m","/">> \o <<Chr(48 + k)>>,
                           dateAdded |-> 0, icon |-> <<>>]),
              <<s_Bookmarks, folder>>)

\* the merged mappings: some of the folders in the order their first bookmark is met,
\* each with 1..MaxCategoryItems bookmarks
MergedInputs ==
    { cats \in UNION { [1..n -> [key : CategoryFolders,
                                 value : { [k \in 1..m |-> 0] : m \in 1..MaxCategoryItems }]]
                       : n \in 0..Cardinality(CategoryFolders) } :
        \A i, j \in 1..Len(cats) : i # j => cats[i].key # cats[j].key }

\* the bookmarks of the entries filled in
merged_input(cats) ==
    [i \in 1..Len(cats) |->
        [key |-> cats[i].key,
         value |-> [k \in 1..Len(cats[i].value) |-> category_item(cats[i].key, k)]]]

SortInit ==
    /\ heap = <<root_folder>>
    /\ open = <<RootId>>
    /\ pos = 0
    /\ phase = "merged"
    /\ \E cats \in MergedInputs : merged_categories = merged_input(cats)
    /\ categories = <<>>
    /\ duplicates = <<>>
    /\ broken_links = <<>>
    /\ args = [none |-> TRUE]
    /\ result = 0
    /\ raised = FALSE
    /\ heap0 = <<>>
    /\ nurl = <<>>
    /\ nres = <<>>
    /\ futures = <<>>
    /\ html = <<>>

\* categorize, from the merge on: return self._filter_and_sort_categories(merged)
FilterAndSort ==
    /\ phase = "merged"
    /\ categories' = filter_and_sort_categories(merged_categories)
    /\ phase' = "sorted"
    /\ UNCHANGED <<heap, open, pos, merged_categories, duplicates, broken_links, args, result,
                   raised, heap0, nurl, nres, futures, html>>

SortNext == FilterAndSort

SortSpec == SortInit /\ [][SortNext]_vars

\* C14: the mapping returned by categorize has no category with fewer than 2 items,
\* and its categories are in the order of their item counts, the largest first,
\* categories with equal counts being in the ascending order of their names.
C14_sorted_count_desc_name_asc ==
    phase = "sorted" =>
        /\ \A i \in 1..Len(categories) : Len(categories[i].value) >= 2
        /\ \A i, j \in 1..Len(categories) :
              i < j =>
                 \/ Len(categories[i].value) > Len(categories[j].value)
                 \/ /\ Len(categories[i].value) = Len(categories[j].value)
                    /\ StrLess(categories[i].key, categories[j].key)

(***************************************************************************)
(* The organizer: subfolders, the Uncategorized folder, preserve_existing  *)
(***************************************************************************)
\* C15: when a category has more bookmarks than max_bookmarks_per_folder, and the
\* bookmarks are on k distinct hosts with 2 <= k <= 10, the folder of the category
\* in the tree returned by organize has exactly k subfolders, one for each host:
\* the children of the folder are k folders, and every host has one subfolder of
\* its own that holds bookmarks of this host only.
C15_one_subfolder_per_host ==
    phase = "organized" =>
        \A c \in 1..Len(categories) :
            LET hosts == {extract_domain(categories[c].value[i].url) :
                              i \in 1..Len(categories[c].value)} \ {<<>>}
                folders == {f \in Range(heap[result].children) :
                               /\ heap[f].type = "folder"
                               /\ heap[f].title = categories[c].key
                               /\ "lastModified" \notin DOMAIN heap[f]}
                host_of(sub) == {extract_domain(heap[b].url) : b \in Range(heap[sub].children)}
            IN  ( /\ Len(categories[c].value) > args.max_bookmarks_per_folder
                  /\ Cardinality(hosts) >= 2
                  /\ Cardinality(hosts) <= 10 ) =>
                    \E f \in folders :
                        /\ Len(heap[f].children) = Cardinality(hosts)
                        /\ \A sub \in Range(heap[f].children) : heap[sub].type = "folder"
                        /\ \A host \in hosts :
                              Cardinality({sub \in Range(heap[f].children) : host_of(sub) = {host}}) = 1

\* C16: in the tree returned by organize the bookmarks with a URL that no category
\* claims are all in one folder titled "Uncategorized", each with the values its
\* fields had in the tree given; the root has at most one child folder of that title,
\* and the folder comes after all the category folders.
C16_uncategorized_folder ==
    phase = "organized" =>
        LET claimed == UNION {{categories[c].value[i].url : i \in 1..Len(categories[c].value)} :
                                 c \in 1..Len(categories)}
            unclaimed == {n \in Nodes(heap0, RootId) :
                             /\ heap0[n].type = "bookmark"
                             /\ heap0[n].url # <<>>
                             /\ heap0[n].url \notin claimed}
            top_level == heap[result].children
            found == {i \in 1..Len(top_level) :
                         /\ heap[top_level[i]].type = "folder"
                         /\ heap[top_level[i]].title = s_Uncategorized}
            category_folders_at == {i \in 1..Len(top_level) :
                                       /\ heap[top_level[i]].type = "folder"
                                       /\ "lastModified" \notin DOMAIN heap[top_level[i]]
                                       /\ \E c \in 1..Len(categories) :
                                             heap[top_level[i]].title = categories[c].key}
            same_fields(b, n) ==
                /\ heap[b].type = "bookmark"
                /\ \A field \in DOMAIN heap0[n] :
                      field \in DOMAIN heap[b] /\ heap[b][field] = heap0[n][field]
        IN  /\ Cardinality(found) <= 1
            /\ unclaimed # {} =>
                  \E i \in found :
                      /\ \A n \in unclaimed :
                            Cardinality({k \in 1..Len(heap[top_level[i]].children) :
                                            same_fields(heap[top_level[i]].children[k], n)})
                               >= Cardinality({m \in unclaimed : heap0[m] = heap0[n]})
                      /\ \A j \in category_folders_at : j < i

\* C17: with preserve_existing true the root of the tree organize returns holds every
\* child of the root of the tree given, each with its whole subtree (the order of
\* children aside), and next to them only new category folders and "Uncategorized";
\* with preserve_existing false the children of the root are new category folders and
\* "Uncategorized" only, and no folder of the tree given is anywhere in the result.
C17_preserve_existing ==
    phase = "organized" =>
        LET RECURSIVE same_tree(_, _, _, _)
            \* the subtree of a in h1 is the subtree of b in h2, the order of children aside
            same_tree(h1, a, h2, b) ==
                /\ DOMAIN h1[a] = DOMAIN h2[b]
                /\ \A field \in DOMAIN h1[a] \ {"children"} : h2[b][field] = h1[a][field]
                /\ h1[a].type = "folder" =>
                      /\ Len(h2[b].children) = Len(h1[a].children)
                      /\ \E p \in Permutations(1..Len(h1[a].children)) :
                            \A k \in 1..Len(h1[a].children) :
                                same_tree(h1, h1[a].children[k], h2, h2[b].children[p[k]])
            original == heap0[RootId].children
            children == heap[result].children
            is_new(id) ==
                /\ heap[id].type = "folder"
                /\ "lastModified" \notin DOMAIN heap[id]
                /\ \/ heap[id].title = s_Uncategorized
                   \/ \E c \in 1..Len(categories) : heap[id].title = categories[c].key
            not_new == {i \in 1..Len(children) : ~is_new(children[i])}
        IN  IF args.preserve_existing
            THEN /\ Cardinality(not_new) = Len(original)
                 /\ \A k \in 1..Len(original) :
                        Cardinality({i \in not_new : same_tree(heap0, original[k], heap, children[i])})
                           = Cardinality({j \in 1..Len(original) :
                                             same_tree(heap0, original[k], heap0, original[j])})
            ELSE /\ not_new = {}
                 /\ \A n \in Nodes(heap, result) \ {result} :
                        heap[n].type = "folder" => "lastModified" \notin DOMAIN heap[n]

\* C17 witness: organize, told to preserve the existing structure, has returned a
\* tree with a new folder for a tree whose root holds a folder with a bookmark in it.
C17_witness ==
    /\ phase = "organized"
    /\ \E f \in Range(heap0[RootId].children) :
          /\ heap0[f].type = "folder"
          /\ heap0[f].children # <<>>
    /\ \E n \in Range(heap[result].children) : "lastModified" \notin DOMAIN heap[n]
    /\ args.preserve_existing

is_host(host) ==
    LET is_label(label) ==
            /\ Len(label) \in 1..63
            /\ \A i \in 1..Len(label) : IsAlpha(label[i]) \/ IsDigit(label[i]) \/ label[i] = "-"
            /\ label[1] # "-"
            /\ label[Len(label)] # "-"
        domain(parts) ==
            /\ Len(parts) >= 2
            /\ \A i \in 1..(Len(parts) - 1) : is_label(parts[i])
            /\ Len(parts[Len(parts)]) >= 2
            /\ \A c \in Range(parts[Len(parts)]) : IsAlpha(c) \/ IsDigit(c) \/ c = "-"
        ipv4(parts) ==
            /\ Len(parts) = 4
            /\ \A i \in 1..4 : Len(parts[i]) \in 1..3 /\ \A c \in Range(parts[i]) : IsDigit(c)
        dotted(parts) ==
            \/ domain(IF Len(parts) > 1 /\ parts[Len(parts)] = <<>>
                      THEN SubSeq(parts, 1, Len(parts) - 1) ELSE parts)
            \/ ipv4(parts)
    IN  host = <<"l","o","c","a","l","h","o","s","t">> \/ dotted(Split(host, "."))

\* _is_valid_url.  The pattern is matched from the start of the URL and, closed
\* with "$" as the pattern this one is taken from, to its end: the scheme, the host
\* (its characters are no characters of what may follow, so it is the longest run of
\* them), a port (?::\d+)? and the rest (?:/?|[/?]\S+).
is_valid_url(url) ==
    LET leading(s, chars) == Min({i \in 0..Len(s) : i = Len(s) \/ s[i + 1] \notin chars})
        rest_ok(rest) ==
            \/ rest = <<>>
            \/ rest = <<"/">>
            \/ /\ Len(rest) >= 2
               /\ rest[1] \in {"/", "?"}
               /\ \A i \in 2..Len(rest) : rest[i] # " "
        port_ok(behind, digits) ==
            IF behind # <<>> /\ behind[1] = ":" /\ digits >= 1
            THEN rest_ok(From(behind, 1 + digits))
            ELSE rest_ok(behind)
        host_ok(behind, n) ==
            /\ is_host(Upto(behind, n))
            /\ port_ok(From(behind, n),
                       leading(From(behind, n + 1), {c \in Range(Printable) : IsDigit(c)}))
        netloc_ok(behind) ==
            host_ok(behind, leading(behind, {c \in Range(Printable) :
                                                IsAlpha(c) \/ IsDigit(c) \/ c \in {"-", "."}}))
        pattern_ok(lowered) ==
            \/ StartsWith(lowered, <<"h","t","t","p",":","/","/">>) /\ netloc_ok(From(lowered, 7))
            \/ StartsWith(lowered, s_https) /\ netloc_ok(From(lowered, 8))
    IN  ~is_skipped(url) /\ pattern_ok(Lower(url))

\* every bookmark is submitted
valid_bookmarks_unfiltered(all_bookmarks) == all_bookmarks

\* valid_bookmarks: the bookmarks find_broken_links submits
valid_bookmarks(all_bookmarks) ==
    SelectSeq(all_bookmarks, LAMBDA b : is_valid_url(Get(b, "url", <<>>)))

\* What the network does to one probe: session.head raises the exception `error` or
\* answers with the status `head`, and session.get, called for a HEAD answer of 403,
\* 404 or 405, raises the exception `get_error` or answers with the status `get`.
\* `text` is the message of the exception raised.
Replies == {
    [error |-> "", text |-> <<>>, head |-> 200, get_error |-> "", get |-> 0],
    [error |-> "", text |-> <<>>, head |-> 405, get_error |-> "", get |-> 200],
    [error |-> "", text |-> <<>>, head |-> 404, get_error |-> "", get |-> 404],
    [error |-> "Timeout", text |-> <<>>, head |-> 0, get_error |-> "", get |-> 0],
    [error |-> "ValueError", text |-> <<"b","o","o","m">>, head |-> 0, get_error |-> "", get |-> 0] }

\* _check_link without the retry: the answer to HEAD is the verdict
check_link_head_only(bookmark, reply) ==
    IF reply.error # ""
    THEN [raised |-> reply.error # "Timeout", is_broken |-> reply.error = "Timeout",
          status |-> IF reply.error = "Timeout" THEN <<"T","i","m","e","o","u","t">> ELSE reply.text,
          requests |-> <<"HEAD">>]
    ELSE [raised |-> FALSE, is_broken |-> reply.head >= 400,
          status |-> <<"H","T","T","P"," ">>
                     \o <<Chr(48 + (reply.head \div 100)), Chr(48 + ((reply.head \div 10) % 10)),
                          Chr(48 + (reply.head % 10))>>,
          requests |-> <<"HEAD">>]

\* _check_link(bookmark) under a reply of the network: the tuple it returns, or the
\* exception it lets through, which is any that is no RequestException, and the
\* requests it has issued
check_link(bookmark, reply) ==
    LET http_status(code) ==       \* f"HTTP {response.status_code}", of three digits
            <<"H","T","T","P"," ">>
            \o <<Chr(48 + (code \div 100)), Chr(48 + ((code \div 10) % 10)), Chr(48 + (code % 10))>>
        returns(is_broken, status, requests) ==
            [raised |-> FALSE, is_broken |-> is_broken, status |-> status, requests |-> requests]
        answered(code, requests) == returns(code >= 400, http_status(code), requests)
        failed(error, requests) ==     \* the except clauses, in their order
            IF error = "Timeout" THEN returns(TRUE, <<"T","i","m","e","o","u","t">>, requests)
            ELSE IF error = "ConnectionError"
            THEN returns(TRUE, <<"C","o","n","n","e","c","t","i","o","n"," ","E","r","r","o","r">>, requests)
            ELSE IF error = "TooManyRedirects"
            THEN returns(TRUE, <<"T","o","o"," ","M","a","n","y"," ","R","e","d","i","r","e","c","t","s">>, requests)
            ELSE IF error = "RequestException" THEN returns(TRUE, reply.text, requests)
            ELSE [raised |-> TRUE, is_broken |-> FALSE, status |-> reply.text, requests |-> requests]
    IN  IF is_skipped(Get(bookmark, "url", <<>>)) /\ Get(bookmark, "url", <<>>) # <<>>
        THEN returns(FALSE, <<"S","k","i","p","p","e","d"," ","(","n","o","n","-","H","T","T","P"," ","U","R","L",")">>, <<>>)
        ELSE IF reply.error # "" THEN failed(reply.error, <<"HEAD">>)
        ELSE IF reply.head \in {403, 404, 405}
        THEN (IF reply.get_error # "" THEN failed(reply.get_error, <<"HEAD", "GET">>)
              ELSE answered(reply.get, <<"HEAD", "GET">>))
        ELSE answered(reply.head, <<"HEAD">>)

\* the loop body without its except clause: an exception of a probe leaves no record
collect_results_only(broken, future) ==
    IF ~future.raised /\ future.is_broken
    THEN Append(broken, ("status" :> future.status) @@ future.bookmark)
    ELSE broken

\* the body of the loop over the completed futures: broken_links after one future
collect(broken, future) ==
    IF future.raised
    THEN Append(broken, ("status" :> (<<"E","r","r","o","r",":"," ">> \o future.status)) @@ future.bookmark)
    ELSE IF future.is_broken
    THEN Append(broken, ("status" :> future.status) @@ future.bookmark)
    ELSE broken

\* the tree holds at most this many bookmarks
MaxLinks == 3

\* the pool has at most this many workers
MaxWorkers == 2

\* The bookmarks of the trees that are checked: two with one URL, a third, one
\* without URL and one whose host the pattern does not admit.
LinkBookmarks == <<
    bookmark_of(Anchors[1]),        \* "News" at http://github.com/a
    bookmark_of(Anchors[3]),        \* "b" at http://github.com/a
    bookmark_of(Anchors[9]),        \* "a2" at http://z.org/
    passenger,                      \* "c" without URL
    [type |-> "bookmark", title |-> <<"i","n">>, url |-> <<"h","t","t","p",":","/","/","i","n","t","r","a","n","e","t","/">>,
     dateAdded |-> 0, lastModified |-> 0] >>      \* "in" at http://intranet/

\* the parser has returned a tree: the root with some of the bookmarks
LinkInit ==
    /\ \E chosen \in {S \in SUBSET (1..Len(LinkBookmarks)) : Cardinality(S) <= MaxLinks} :
          heap = <<[root_folder EXCEPT !.children = [i \in 1..Cardinality(chosen) |-> i + 1]]>>
                 \o [i \in 1..Cardinality(chosen) |->
                        LinkBookmarks[CHOOSE k \in chosen :
                                         Cardinality({j \in chosen : j < k}) = i - 1]]
    /\ open = <<>>
    /\ pos = 0
    /\ phase = "parsed"
    /\ merged_categories = <<>>
    /\ categories = <<>>
    /\ duplicates = <<>>
    /\ broken_links = <<>>
    /\ args = [none |-> TRUE]
    /\ result = 0
    /\ raised = FALSE
    /\ heap0 = <<>>
    /\ nurl = <<>>
    /\ nres = <<>>
    /\ futures = <<>>
    /\ html = <<>>

\* find_broken_links up to the loop: the valid bookmarks are submitted to a pool of
\* `concurrency` workers, one future for each
Submit ==
    /\ phase = "parsed"
    /\ \E concurrency \in 1..MaxWorkers :
          args' = [concurrency |-> concurrency]
    /\ \E valid \in {valid_bookmarks(flatten(heap, RootId))} :
          futures' = [i \in 1..Len(valid) |->
                         [bookmark |-> valid[i], state |-> "pending", probes |-> 0,
                          raised |-> FALSE, is_broken |-> FALSE, status |-> <<>>]]
    /\ broken_links' = <<>>
    /\ phase' = "checking"
    /\ UNCHANGED <<heap, open, pos, merged_categories, categories, duplicates, result, raised,
                   heap0, nurl, nres, html>>

\* a pool without a limit of workers: any work item is taken at once
StartProbe_unbounded ==
    /\ phase = "checking"
    /\ \E i \in 1..Len(futures) :
          /\ futures[i].state = "pending"
          /\ futures' = [futures EXCEPT ![i].state = "running", ![i].probes = @ + 1]
    /\ UNCHANGED <<heap, open, pos, phase, merged_categories, categories, duplicates,
                   broken_links, args, result, raised, heap0, nurl, nres, html>>

\* a worker that is free takes the oldest work item of the queue and calls
\* _check_link for it; `probes` counts the calls made for the bookmark
StartProbe ==
    /\ phase = "checking"
    /\ Cardinality({i \in 1..Len(futures) : futures[i].state = "running"}) < args.concurrency
    /\ \E i \in 1..Len(futures) :
          /\ futures[i].state = "pending"
          /\ \A j \in 1..(i - 1) : futures[j].state # "pending"
          /\ futures' = [futures EXCEPT ![i].state = "running", ![i].probes = @ + 1]
    /\ UNCHANGED <<heap, open, pos, phase, merged_categories, categories, duplicates,
                   broken_links, args, result, raised, heap0, nurl, nres, html>>

\* _check_link returns or raises in a worker: the future is done
ProbeReturns ==
    /\ phase = "checking"
    /\ \E i \in 1..Len(futures), reply \in Replies :
          /\ futures[i].state = "running"
          /\ \E r \in {check_link(futures[i].bookmark, reply)} :
                futures' = [futures EXCEPT ![i] =
                               [bookmark |-> @.bookmark, state |-> "done", probes |-> @.probes,
                                raised |-> r.raised,
                                is_broken |-> r.is_broken, status |-> r.status]]
    /\ UNCHANGED <<heap, open, pos, phase, merged_categories, categories, duplicates,
                   broken_links, args, result, raised, heap0, nurl, nres, html>>

\* one turn of the loop: as_completed hands over a future that is done and the loop
\* body takes its result or its exception
Collect ==
    /\ phase = "checking"
    /\ \E i \in 1..Len(futures) :
          /\ futures[i].state = "done"
          /\ broken_links' = collect(broken_links, futures[i])
          /\ futures' = [futures EXCEPT ![i].state = "collected"]
    /\ UNCHANGED <<heap, open, pos, phase, merged_categories, categories, duplicates,
                   args, result, raised, heap0, nurl, nres, html>>

\* as_completed has handed over every future: the pool is shut down and
\* find_broken_links returns broken_links
Return ==
    /\ phase = "checking"
    /\ \A i \in 1..Len(futures) : futures[i].state = "collected"
    /\ phase' = "checked"
    /\ UNCHANGED <<heap, open, pos, merged_categories, categories, duplicates, broken_links,
                   args, result, raised, heap0, nurl, nres, futures, html>>

LinkNext ==
    \/ Submit
    \/ StartProbe
    \/ ProbeReturns
    \/ Collect
    \/ Return

\* The main thread goes on with its loop and returns when it can, and a free worker
\* takes the work there is.  Nothing is assumed of the network: a probe may never
\* return.
LinkSpec ==
    /\ LinkInit
    /\ [][LinkNext]_vars
    /\ WF_vars(Collect)
    /\ WF_vars(Return)
    /\ WF_vars(StartProbe)

(***************************************************************************)
(* BookmarkAnalyzer._apply_ml_clustering                                   *)
(***************************************************************************)
\* _apply_ml_clustering(bookmarks, existing_categories): the mapping returned, the
\* clustering having given `labels` to the uncategorized bookmarks.  `failure` tells
\* where an exception is raised: nowhere ("none"), in the vectorizer
\* ("fit_transform"), in the clustering ("fit_predict"), or in the turn `turn` of the
\* loop that names the clusters and adds their bookmarks ("loop").
\* result = existing_categories.copy() copies the dict and not its lists: an append
\* to the list of a category that existing_categories has is seen through both.
apply_ml_clustering(bookmarks, existing_categories, labels, failure) ==
    LET categorized_urls ==
            UNION {{Get(item, "url", <<>>) : item \in Range(existing_categories[c].value)} :
                      c \in 1..Len(existing_categories)}
        uncategorized ==
            SelectSeq(bookmarks, LAMBDA b : Get(b, "url", <<>>) \notin categorized_urls)
        \* str.title()
        title_case(s) ==
            [i \in 1..Len(s) |->
                IF i = 1 \/ ~IsAlpha(s[i - 1]) THEN UpperChar(s[i]) ELSE LowerChar(s[i])]
        \* Counter(items).most_common(n): the counts descending, the items of one
        \* count in the order of their first occurrence
        count(items, x) == Cardinality({i \in 1..Len(items) : items[i] = x})
        first(items, x) == Min({i \in 1..Len(items) : items[i] = x})
        rank(items, x) ==
            Cardinality({y \in Range(items) :
                            \/ count(items, y) > count(items, x)
                            \/ count(items, y) = count(items, x) /\ first(items, y) < first(items, x)})
        most_common(items, n) ==
            [r \in 1..Min({n, Cardinality(Range(items))}) |->
                CHOOSE x \in Range(items) : rank(items, x) = r - 1]
        \* _generate_cluster_name
        named(title_words, domains) ==
            LET common_words ==
                    SelectSeq(most_common(title_words, 3),
                              LAMBDA word : count(title_words, word) > 1 /\ Len(word) > 3)
            IN  IF common_words # <<>> THEN title_case(Join(common_words, " "))
                ELSE IF domains # <<>>
                THEN title_case(Split(most_common(domains, 1)[1], ".")[1])
                     \o <<" ","R","e","s","o","u","r","c","e","s">>
                ELSE <<"R","e","l","a","t","e","d"," ","R","e","s","o","u","r","c","e","s">>
        generate_cluster_name(cluster_bookmarks) ==
            named(Concat([i \in 1..Len(cluster_bookmarks) |->
                             tokenize_and_clean(Get(cluster_bookmarks[i], "title", <<>>))]),
                  SelectSeq([i \in 1..Len(cluster_bookmarks) |->
                                extract_domain(Get(cluster_bookmarks[i], "url", <<>>))],
                            LAMBDA domain : domain # <<>>))
        cluster(label) ==
            [k \in 1..Cardinality({i \in 1..Len(labels) : labels[i] = label}) |->
                uncategorized[CHOOSE i \in 1..Len(labels) :
                                 /\ labels[i] = label
                                 /\ Cardinality({j \in 1..i : labels[j] = label}) = k]]
        RECURSIVE turns(_, _, _)
        \* the loop from turn idx on: existing is existing_categories, res is result
        turns(idx, existing, res) ==
            IF idx > Len(labels) THEN res
            ELSE IF labels[idx] < 0 THEN turns(idx + 1, existing, res)
            ELSE IF failure.at = "loop" /\ failure.turn = idx THEN existing
            ELSE LET added(cluster_name) ==
                         turns(idx + 1,
                               IF DictHas(existing, cluster_name)
                               THEN DictAppend(existing, cluster_name, uncategorized[idx])
                               ELSE existing,
                               DictAppend(res, cluster_name, uncategorized[idx]))
                 IN  added(generate_cluster_name(cluster(labels[idx])))
    IN  IF Len(uncategorized) < 5 THEN existing_categories
        ELSE IF failure.at \in {"fit_transform", "fit_predict"} THEN existing_categories
        ELSE turns(1, existing_categories, existing_categories)

(***************************************************************************)
(* categorize with the clustering refinement, from the merge on            *)
(***************************************************************************)
\* The tree given to categorize has more than MlMinBookmarks bookmarks "a2" at
\* http://z.com/<letter>: those of a folder below the root, which are its category,
\* and four or five in the root, which no strategy claims.
RefineInit ==
    /\ \E title \in { <<"Z"," ","R","e","s","o","u","r","c","e","s">>, <<"Z","e","d">> },
          loose \in {4, 5} :
          LET in_folder == MlMinBookmarks + 1 - loose
              a2(k) == bookmark_of([title |-> <<"a","2">>,
                                    url |-> <<"h","t","t","p",":","/","/","z",".","c","o","m","/">>
                                            \o <<Chr(96 + k)>>,
                                    dateAdded |-> 0, icon |-> <<>>])
          IN  heap = <<[root_folder EXCEPT
                           !.children = <<2>> \o [k \in 1..loose |-> 2 + in_folder + k]],
                       [new_folder(title) EXCEPT !.children = [k \in 1..in_folder |-> 2 + k]]>>
                     \o [k \in 1..(in_folder + loose) |-> a2(k)]
    /\ merged_categories = merge_categories(strategy_results(flatten(heap, RootId)))
    /\ open = <<>>
    /\ pos = 0
    /\ phase = "merged"
    /\ categories = <<>>
    /\ duplicates = <<>>
    /\ broken_links = <<>>
    /\ args = [none |-> TRUE]
    /\ result = 0
    /\ raised = FALSE
    /\ heap0 = <<>>
    /\ nurl = <<>>
    /\ nres = <<>>
    /\ futures = <<>>
    /\ html = <<>>

\* categorize: merged_categories = self._apply_ml_clustering(all_bookmarks,
\* merged_categories).  The clustering gives each bookmark a cluster or -1, a cluster
\* having two bookmarks or more; an exception may be raised at any step.
ApplyMlClustering ==
    /\ phase = "merged"
    /\ Len(flatten(heap, RootId)) > MlMinBookmarks
    /\ \E unclaimed \in {SelectSeq(flatten(heap, RootId),
                                   LAMBDA b : \A c \in 1..Len(merged_categories) :
                                                  b \notin Range(merged_categories[c].value))},
          at \in {"none", "fit_transform", "fit_predict", "loop"}, turn \in 0..5 :
       \E labels \in [1..(IF Len(unclaimed) >= 5 THEN Len(unclaimed) ELSE 0) -> {-1, 0, 1}] :
          /\ \A label \in {0, 1} : Cardinality({i \in 1..Len(labels) : labels[i] = label}) # 1
          /\ 1 \in Range(labels) => 0 \in Range(labels)
          /\ (at = "loop") = (turn > 0)
          /\ turn > 0 => turn <= Len(labels) /\ labels[turn] >= 0
          /\ merged_categories' =
                apply_ml_clustering(flatten(heap, RootId), merged_categories, labels,
                                    [at |-> at, turn |-> turn])
          /\ args' = [existing_categories |-> merged_categories, labels |-> labels,
                      failure |-> [at |-> at, turn |-> turn]]
    /\ phase' = "refined"
    /\ UNCHANGED <<heap, open, pos, categories, duplicates, broken_links, result, raised,
                   heap0, nurl, nres, futures, html>>

RefineSpec == RefineInit /\ [][ApplyMlClustering]_vars

(***************************************************************************)
(* organize and merge_duplicates with a mapping made before bookmarks were *)
(* taken out of the tree                                                   *)
(***************************************************************************)
\* the mapping was made of a tree of at most this many bookmarks
MaxStale == 3

\* The caller has the category mapping or the duplicate mapping of a tree whose root
\* holds some of the bookmarks of github.com and z.com, and a tree that holds some of
\* these bookmarks only.
StaleInit ==
    /\ \E all \in {S \in SUBSET {1, 2, 3, 7, 8} : Cardinality(S) <= MaxStale} :
       \E kept \in SUBSET all :
          LET tree(S) ==
                  <<[root_folder EXCEPT !.children = [i \in 1..Cardinality(S) |-> i + 1]]>>
                  \o [i \in 1..Cardinality(S) |->
                         bookmark_of(Anchors[CHOOSE k \in S :
                                                Cardinality({j \in S : j < k}) = i - 1])]
          IN  /\ heap = tree(kept)
              /\ \/ /\ phase = "categorized"
                    /\ categories = filter_and_sort_categories(
                                        merge_categories(strategy_results(flatten(tree(all), RootId))))
                    /\ duplicates = <<>>
                    /\ args = [none |-> TRUE]
                 \/ /\ phase = "duplicates"
                    /\ \E url_normalize \in BOOLEAN :
                          /\ duplicates = find_duplicates(tree(all), RootId, url_normalize)
                          /\ args = [url_normalize |-> url_normalize]
                    /\ categories = <<>>
    /\ open = <<>>
    /\ pos = 0
    /\ merged_categories = <<>>
    /\ broken_links = <<>>
    /\ result = 0
    /\ raised = FALSE
    /\ heap0 = <<>>
    /\ nurl = <<>>
    /\ nres = <<>>
    /\ futures = <<>>
    /\ html = <<>>

StaleSpec == StaleInit /\ [][Organize \/ MergeDuplicates]_vars

(***************************************************************************)
(* _create_subfolders on the bookmarks of one category                     *)
(***************************************************************************)
\* a category has at most this many bookmarks
MaxSubfolderItems == 12

\* organize has met a category of more than max_per_folder bookmarks.  Bookmark k has
\* the title given by titles[k] ("" for none) and is at http://<host><tld>/<k>, the
\* host being one of `hosts` one-letter names in turn and the TLD of a host one of
\* `tlds` names in turn: none when tlds is 0, ".com" and ".org" when it is 2.  When
\* hosts is 0 the bookmarks have no URL.  The bookmarks differ in dateAdded.
SubfolderInit ==
    /\ \E n \in {2, 3, MaxGroups + 1, MaxSubfolderItems},
          hosts \in {0, 1, 2, MaxGroups, MaxGroups + 1, MaxSubfolderItems},
          tlds \in {0, 1, 2, MaxGroups + 1},
          titles \in { << <<"b">>, <<"A">>, <<"2">>, <<>> >>,
                       << <<"b","c">>, <<"C">>, <<"a">> >>,
                       << <<"z">> >> },
          max_per_folder \in 1..3 :
          LET host(k) == IF hosts = 0 THEN 0 ELSE ((k - 1) % hosts) + 1
              tld(j) == IF tlds = 0 THEN <<>>
                        ELSE IF tlds <= 2
                        THEN << <<".","c","o","m">>, <<".","o","r","g">> >>[((j - 1) % tlds) + 1]
                        ELSE <<".","t", Chr(96 + ((j - 1) % tlds) + 1)>>
              bookmark(k) ==
                  [type |-> "bookmark", title |-> titles[((k - 1) % Len(titles)) + 1],
                   url |-> IF hosts = 0 THEN <<>>
                           ELSE <<"h","t","t","p",":","/","/", Chr(96 + host(k))>>
                                \o tld(host(k)) \o <<"/", Chr(96 + k)>>,
                   dateAdded |-> k, lastModified |-> 0, folderPath |-> <<s_Bookmarks>>]
          IN  /\ n > max_per_folder
              /\ args = [bookmarks |-> [k \in 1..n |-> bookmark(k)],
                         max_per_folder |-> max_per_folder]
    /\ heap = <<root_folder>>
    /\ open = <<>>
    /\ pos = 0
    /\ phase = "category"
    /\ merged_categories = <<>>
    /\ categories = <<>>
    /\ duplicates = <<>>
    /\ broken_links = <<>>
    /\ result = 0
    /\ raised = FALSE
    /\ heap0 = <<>>
    /\ nurl = <<>>
    /\ nres = <<>>
    /\ futures = <<>>
    /\ html = <<>>

\* subfolders = self._create_subfolders(bookmarks_in_category, max_bookmarks_per_folder)
CreateSubfolders ==
    /\ phase = "category"
    /\ result' = create_subfolders(args.bookmarks, args.max_per_folder)
    /\ phase' = "split"
    /\ UNCHANGED <<heap, open, pos, merged_categories, categories, duplicates, broken_links,
                   args, raised, heap0, nurl, nres, futures, html>>

SubfolderSpec == SubfolderInit /\ [][CreateSubfolders]_vars

(***************************************************************************)
(* The Domain strategy alone: _categorize_by_domain on one or two          *)
(* bookmarks whose hosts and paths are those of the rules with a path.     *)
(***************************************************************************)
DomainInit ==
    /\ \E n \in 1..2 :
       \E hosts \in [1..n -> { <<"g","o","o","g","l","e",".","c","o","m">>,
                               s_www \o <<"g","o","o","g","l","e",".","c","o","m">>,
                               <<"a","p","p","l","e",".","c","o","m">>,
                               <<"y","a","h","o","o",".","c","o","m">>,
                               <<"g","i","t","h","u","b",".","c","o","m">> }],
          paths \in [1..n -> { <<>>, <<"/","d","o","c","s","/","a">>, <<"/","m","u","s","i","c">>,
                               <<"/","m","a","i","l">>, <<"/","d","r","i","v","e","/","x">>,
                               <<"/","a","/","s","h","e","e","t","s">> }] :
          args = [bookmarks |->
                    [k \in 1..n |->
                        [type |-> "bookmark", title |-> <<"t">>,
                         url |-> s_https \o hosts[k] \o paths[k],
                         dateAdded |-> k, lastModified |-> 0, folderPath |-> <<s_Bookmarks>>]]]
    /\ heap = <<root_folder>>
    /\ open = <<>>
    /\ pos = 0
    /\ phase = "flattened"
    /\ merged_categories = <<>>
    /\ categories = <<>>
    /\ duplicates = <<>>
    /\ broken_links = <<>>
    /\ result = 0
    /\ raised = FALSE
    /\ heap0 = <<>>
    /\ nurl = <<>>
    /\ nres = <<>>
    /\ futures = <<>>
    /\ html = <<>>

\* domain_categories = self._categorize_by_domain(bookmarks)
CategorizeByDomain ==
    /\ phase = "flattened"
    /\ categories' = categorize_by_domain(args.bookmarks)
    /\ phase' = "domains"
    /\ UNCHANGED <<heap, open, pos, merged_categories, duplicates, broken_links,
                   args, result, raised, heap0, nurl, nres, futures, html>>

DomainSpec == DomainInit /\ [][CategorizeByDomain]_vars

(***************************************************************************)
(* One probe: _check_link on a bookmark that find_broken_links submits,    *)
(* under anything the network may do at the two requests                   *)
(***************************************************************************)
ProbeInit ==
    /\ heap = <<root_folder>>
    /\ open = <<>>
    /\ pos = 0
    /\ phase = "probe"
    /\ merged_categories = <<>>
    /\ categories = <<>>
    /\ duplicates = <<>>
    /\ broken_links = <<>>
    /\ \E bookmark \in Range(valid_bookmarks(LinkBookmarks)),
          error, get_error \in {"", "Timeout", "ConnectionError", "TooManyRedirects",
                                "RequestException", "ValueError"},
          head \in {200, 399, 400, 403, 404, 405, 500},
          get \in {200, 399, 400, 404, 503} :
          args = [bookmark |-> bookmark,
                  reply |-> [error |-> error, text |-> <<"b","o","o","m">>, head |-> head,
                             get_error |-> get_error, get |-> get]]
    /\ result = 0
    /\ raised = FALSE
    /\ heap0 = <<>>
    /\ nurl = <<>>
    /\ nres = <<>>
    /\ futures = <<>>
    /\ html = <<>>

\* self._check_link(bookmark) in a worker
CheckLink ==
    /\ phase = "probe"
    /\ result' = check_link(args.bookmark, args.reply)
    /\ phase' = "probed"
    /\ UNCHANGED <<heap, open, pos, merged_categories, categories, duplicates, broken_links,
                   args, raised, heap0, nurl, nres, futures, html>>

ProbeSpec == ProbeInit /\ [][CheckLink]_vars

(***************************************************************************)
(* The link checker                                                        *)
(***************************************************************************)
\* C19: an exception that a probe lets through does not end the batch: when
\* find_broken_links returns, every future has been taken up, the bookmark of a probe
\* that raised has a broken-link record whose status contains the text of the
\* exception, and the bookmark of every other probe has a record with the status of
\* its own verdict when the verdict is broken and none when it is not.
C19_exception_does_not_abort ==
    phase = "checked" =>
        \A i \in 1..Len(futures) :
            LET records == {k \in 1..Len(broken_links) :
                               \A field \in DOMAIN futures[i].bookmark :
                                   broken_links[k][field] = futures[i].bookmark[field]}
            IN  /\ futures[i].state = "collected"
                /\ futures[i].raised =>
                      \E k \in records : Contains(broken_links[k].status, futures[i].status)
                /\ ~futures[i].raised =>
                      IF futures[i].is_broken
                      THEN \E k \in records : broken_links[k].status = futures[i].status
                      ELSE records = {}

\* C19 witness: find_broken_links has returned after one probe raised, another found
\* its link broken and a third found its link alive.
C19_witness ==
    /\ phase = "checked"
    /\ \E i, j, k \in 1..Len(futures) :
          /\ futures[i].raised
          /\ ~futures[j].raised /\ futures[j].is_broken
          /\ ~futures[k].raised /\ ~futures[k].is_broken

\* C20: whatever the interleaving of the probes and the order in which they complete,
\* find_broken_links returns once every probe has returned, and what it returns holds
\* exactly one record for each bookmark with a valid URL whose probe found it broken
\* (or raised) and no record for any other bookmark.
C20_exact_records_and_termination ==
    /\ [](phase = "checked" =>
            LET bookmarks == Nodes(heap, RootId) \ {RootId}
                futures_of(n) == {i \in 1..Len(futures) :
                                     \A field \in DOMAIN heap[n] :
                                         futures[i].bookmark[field] = heap[n][field]}
                records_of(n) == {k \in 1..Len(broken_links) :
                                     \A field \in DOMAIN heap[n] :
                                         broken_links[k][field] = heap[n][field]}
            IN  /\ \A n \in bookmarks :
                      IF is_valid_url(heap[n].url)
                      THEN /\ Cardinality(futures_of(n)) = 1
                           /\ \A i \in futures_of(n) :
                                 Cardinality(records_of(n))
                                    = IF futures[i].raised \/ futures[i].is_broken THEN 1 ELSE 0
                      ELSE futures_of(n) = {} /\ records_of(n) = {}
                /\ \A k \in 1..Len(broken_links) : \E n \in bookmarks : k \in records_of(n))
    /\ ((phase = "checking" /\ \A i \in 1..Len(futures) : futures[i].state \in {"done", "collected"})
           ~> phase = "checked")

\* C20 witness: find_broken_links has returned for a tree with a bookmark that is not
\* submitted, the records of two bookmarks being in the reverse of the order in which
\* the bookmarks were submitted.
C20_witness ==
    /\ phase = "checked"
    /\ \E n \in Nodes(heap, RootId) \ {RootId} : ~is_valid_url(heap[n].url)
    /\ \E i, j \in 1..Len(futures) :
          /\ i < j
          /\ \E k, l \in 1..Len(broken_links) :
                /\ l < k
                /\ broken_links[k].title = futures[i].bookmark.title
                /\ broken_links[l].title = futures[j].bookmark.title

(***************************************************************************)
(* C21: export_html writes every folder below the root as a folder header  *)
(* with its children nested inside it: after an export, each non-root      *)
(* folder of the exported tree has a header line, at the indent of its     *)
(* depth, carrying its title.                                              *)
(***************************************************************************)
C21_folders_are_exported ==
    phase = "exported" =>
        LET RECURSIVE depth_of(_, _, _)
            depth_of(id, n, d) ==
                IF id = n THEN d
                ELSE IF heap[id].type # "folder" THEN 0
                ELSE LET below == {depth_of(heap[id].children[i], n, d + 1) :
                                       i \in 1..Len(heap[id].children)} \ {0}
                     IN  IF below = {} THEN 0 ELSE CHOOSE x \in below : TRUE
        IN  \A n \in Nodes(heap, args.bookmarks) \ {args.bookmarks} :
                heap[n].type = "folder" =>
                    \E k \in 1..Len(html) :
                        /\ html[k].tag = "H3"
                        /\ html[k].text = heap[n].title
                        /\ html[k].indent = depth_of(args.bookmarks, n, 0)

\* C22: at every moment of a find_broken_links run at most `concurrency` probes are
\* executing, no bookmark has been probed twice, the bookmarks probed are those whose
\* probe is executing or has returned, and when find_broken_links returns each
\* bookmark of the tree with a valid URL has been probed exactly once and no other
\* bookmark has been probed.
C22_bounded_probes_once_each ==
    phase \in {"checking", "checked"} =>
        LET running == {i \in 1..Len(futures) : futures[i].state = "running"}
            probes_of(n) == {i \in 1..Len(futures) :
                                /\ futures[i].probes > 0
                                /\ \A field \in DOMAIN heap[n] :
                                      futures[i].bookmark[field] = heap[n][field]}
        IN  /\ Cardinality(running) <= args.concurrency
            /\ \A i \in 1..Len(futures) :
                  futures[i].probes = IF futures[i].state = "pending" THEN 0 ELSE 1
            /\ phase = "checked" =>
                  \A n \in Nodes(heap, RootId) \ {RootId} :
                      Cardinality(probes_of(n)) = IF is_valid_url(heap[n].url) THEN 1 ELSE 0

\* C22 witness: every worker of the pool is executing a probe while a bookmark waits
\* for a worker and the probe of another bookmark has returned.
C22_witness ==
    /\ phase = "checking"
    /\ Cardinality({i \in 1..Len(futures) : futures[i].state = "running"}) = args.concurrency
    /\ \E i, j \in 1..Len(futures) :
          /\ futures[i].state = "pending"
          /\ futures[j].state \in {"done", "collected"}

\* C23: a probe issues HEAD first; it issues GET after it exactly when HEAD was
\* answered with 403, 404 or 405; when no request failed, the verdict is broken
\* exactly when the status of the last answer is 400 or more, and the status text is
\* "HTTP " and that code; a timeout, a connection failure or too many redirects at
\* HEAD or at GET gives the verdict broken with the reason "Timeout", "Connection
\* Error" or "Too Many Redirects".
C23_head_then_get_verdict ==
    phase = "probed" =>
        LET reply == args.reply
            retry == reply.error = "" /\ reply.head \in {403, 404, 405}
            failure == IF reply.error # "" THEN reply.error
                       ELSE IF retry THEN reply.get_error ELSE ""
            final == IF retry THEN reply.get ELSE reply.head
            digit(d) == CHOOSE c \in Range(Printable) : Ord(c) = Ord("0") + d
            reason == [Timeout |-> <<"T","i","m","e","o","u","t">>,
                       ConnectionError |-> <<"C","o","n","n","e","c","t","i","o","n"," ","E","r","r","o","r">>,
                       TooManyRedirects |-> <<"T","o","o"," ","M","a","n","y"," ","R","e","d","i","r","e","c","t","s">>]
        IN  /\ result.requests = IF retry THEN <<"HEAD", "GET">> ELSE <<"HEAD">>
            /\ failure = "" =>
                  /\ ~result.raised
                  /\ result.is_broken <=> final >= 400
                  /\ result.status = <<"H","T","T","P"," ", digit(final \div 100),
                                       digit((final \div 10) % 10), digit(final % 10)>>
            /\ failure \in DOMAIN reason =>
                  /\ ~result.raised
                  /\ result.is_broken
                  /\ result.status = reason[failure]

\* C23 witness: HEAD was answered with 403 and the GET that followed timed out.
C23_witness ==
    /\ phase = "probed"
    /\ args.reply.error = "" /\ args.reply.head = 403 /\ args.reply.get_error = "Timeout"
    /\ result.requests = <<"HEAD", "GET">>
    /\ result.is_broken /\ result.status = <<"T","i","m","e","o","u","t">>

\* C24: when the clustering refinement fails, in the vectorizer, in the clustering or
\* while the clusters are named and added, categorize goes on with the mapping it had
\* before the refinement: the same categories with the same bookmarks.
C24_failure_keeps_mapping ==
    (phase = "refined" /\ args.failure.at # "none") =>
        merged_categories = args.existing_categories

\* C25: references of the category mapping given to organize, or of the duplicate
\* mapping given to merge_duplicates, to URLs that no bookmark of the tree has are
\* skipped: the operation ends without an exception that the mapping without these
\* references would not raise, the tree returned holds no bookmark with such a URL,
\* and it is the tree the operation returns for the mapping without these references.
C25_absent_references_skipped ==
    phase \in {"organized", "merged"} =>
        LET present == {Get(b, "url", <<>>) : b \in Range(flatten(heap0, RootId))}
            without_absent(mapping) ==
                [c \in 1..Len(mapping) |->
                    [key |-> mapping[c].key,
                     value |-> SelectSeq(mapping[c].value,
                                         LAMBDA b : Get(b, "url", <<>>) \in present)]]
            RECURSIVE tree(_, _)
            tree(h, id) ==
                IF h[id].type = "folder"
                THEN [node |-> [h[id] EXCEPT !.children = <<>>],
                      children |-> [i \in 1..Len(h[id].children) |-> tree(h, h[id].children[i])]]
                ELSE [node |-> h[id], children |-> <<>>]
            same(expected) == tree(heap, result) = tree(expected.heap, expected.id)
        IN  IF phase = "organized"
            THEN /\ \A b \in Range(flatten(heap, result)) : Get(b, "url", <<>>) \in present
                 /\ same(organize(heap0, RootId, without_absent(categories),
                                  args.max_bookmarks_per_folder, args.preserve_existing))
            ELSE ~merge_raises(without_absent(duplicates)) =>
                    /\ ~raised
                    /\ \A b \in Range(flatten(heap, result)) : Get(b, "url", <<>>) \in present
                    /\ same(merge_duplicates(heap0, RootId, without_absent(duplicates)))

(***************************************************************************)
(* The subfolders of a split category                                      *)
(***************************************************************************)
\* C26: the grouping _create_subfolders uses.  With 2 to 10 hosts among the bookmarks
\* each subfolder holds bookmarks of one host and has the formatted name of that
\* host.  With more than 10 hosts of 2 to 10 TLDs there is one subfolder for each
\* TLD, named "<TLD in upper case> Sites", holding the bookmarks of the hosts of that
\* TLD.  In every other case (no host or one, or more than 10 hosts of one TLD or of
\* more than 10) the subfolders are buckets of first letters: each is named by
\* letters or "#" joined by "-" and holds titled bookmarks whose first letter is one
\* of them.
C26_grouping_cascade ==
    phase = "split" =>
        LET bookmarks == Range(args.bookmarks)
            host(b) == extract_domain(b.url)
            hosts == {host(b) : b \in bookmarks} \ {<<>>}
            last_label(h) == IF "." \in Range(h) THEN Split(h, ".")[Len(Split(h, "."))]
                             ELSE <<"o","t","h","e","r">>
            tlds == {last_label(h) : h \in hosts}
            letter(b) == IF IsAlpha(b.title[1]) THEN UpperChar(b.title[1]) ELSE "#"
            entries == 1..Len(result)
        IN  IF Cardinality(hosts) \in 2..10
            THEN /\ entries # {}
                 /\ \A e \in entries : \E h \in hosts :
                       /\ result[e].key = format_domain_name(h)
                       /\ \A b \in Range(result[e].value) : host(b) = h
            ELSE IF Cardinality(hosts) > 10 /\ Cardinality(tlds) \in 2..10
            THEN /\ {result[e].key : e \in entries}
                        = {Upper(t) \o <<" ","S","i","t","e","s">> : t \in tlds}
                 /\ Len(result) = Cardinality(tlds)
                 /\ \A e \in entries : \E t \in tlds :
                       /\ result[e].key = Upper(t) \o <<" ","S","i","t","e","s">>
                       /\ Range(result[e].value) = {b \in bookmarks : last_label(host(b)) = t}
            ELSE /\ \A e \in entries :
                       /\ \A part \in Range(Split(result[e].key, "-")) :
                             Len(part) = 1 /\ (IsUpper(part[1]) \/ part[1] = "#")
                       /\ \A b \in Range(result[e].value) :
                             /\ b.title # <<>>
                             /\ <<letter(b)>> \in Range(Split(result[e].key, "-"))
                 /\ \A b \in bookmarks : b.title # <<>> =>
                       \E e \in entries : b \in Range(result[e].value)

\* C26 witness: a category of more than 10 hosts, some of .com and some of .org, has
\* been split into "COM Sites" and "ORG Sites".
C26_witness ==
    /\ phase = "split"
    /\ Cardinality({extract_domain(b.url) : b \in Range(args.bookmarks)}) > 10
    /\ {result[e].key : e \in 1..Len(result)}
          = { <<"C","O","M"," ","S","i","t","e","s">>, <<"O","R","G"," ","S","i","t","e","s">> }

\* C27: the buckets of the alphabetical fallback.  The names of the buckets, one
\* after the other, list the first letters of the titles in sorted order, each once,
\* "#" standing for a first character that is no letter; a bucket of two or more
\* letters holds at most max_per_folder bookmarks; a bucket starts only with a letter
\* whose bookmarks did not fit into the bucket before it; and each titled bookmark is
\* in exactly one bucket, that of its letter.
C27_alphabetical_buckets ==
    phase = "split" =>
        LET bookmarks == Range(args.bookmarks)
            hosts == {extract_domain(b.url) : b \in bookmarks} \ {<<>>}
            tlds == {IF "." \in Range(h) THEN Split(h, ".")[Len(Split(h, "."))] ELSE <<"o">> :
                        h \in hosts}
            alphabetical == /\ Cardinality(hosts) \notin 2..10
                            /\ ~(Cardinality(hosts) > 10 /\ Cardinality(tlds) \in 2..10)
            letter(b) == IF IsAlpha(b.title[1]) THEN UpperChar(b.title[1]) ELSE "#"
            titled == {b \in bookmarks : b.title # <<>>}
            letters(e) == Split(result[e].key, "-")
            all_letters == Concat([e \in 1..Len(result) |-> letters(e)])
            of_letter(c) == {b \in titled : <<letter(b)>> = c}
        IN  alphabetical =>
              /\ {all_letters[i] : i \in 1..Len(all_letters)} = {<<letter(b)>> : b \in titled}
              /\ \A i, j \in 1..Len(all_letters) : i < j => StrLess(all_letters[i], all_letters[j])
              /\ \A e \in 1..Len(result) :
                    /\ Range(result[e].value) = UNION {of_letter(c) : c \in Range(letters(e))}
                    /\ Len(result[e].value) = Cardinality(Range(result[e].value))
                    /\ Len(letters(e)) >= 2 => Len(result[e].value) <= args.max_per_folder
                    /\ e > 1 => Len(result[e - 1].value) + Cardinality(of_letter(letters(e)[1]))
                                   > args.max_per_folder

\* C27 witness: the fallback has made a bucket of two letters and, after it, a bucket
\* of a letter that did not fit, one of the names holding "#".
C27_witness ==
    /\ phase = "split"
    /\ Cardinality({extract_domain(b.url) : b \in Range(args.bookmarks)}) = 1
    /\ \E e \in 1..Len(result) :
          /\ Len(Split(result[e].key, "-")) = 2
          /\ e < Len(result)
    /\ \E e \in 1..Len(result) : "#" \in Range(result[e].key)

\* C28: in the Domain strategy a rule with a path ('google.com/docs',
\* 'apple.com/music', 'yahoo.com/mail', ...) matches a bookmark whose host,
\* www. stripped, is the rule's domain and whose URL path contains the
\* rule's path part; when no earlier rule matches, the bookmark is listed
\* under that rule's category.
C28_path_rules_match ==
    LET rule_matches(rule, slash, url) ==
            IF slash >= 0
            THEN /\ extract_domain(url) = Upto(rule, slash)
                 /\ Contains(urlparse(url).path, From(rule, slash + 1))
            ELSE pattern_match(rule, extract_domain(url))
        matching(url) == {i \in 1..Len(domain_categories) :
                            rule_matches(domain_categories[i][1],
                                         Find(domain_categories[i][1], "/"), url)}
        first(rules) == CHOOSE i \in rules : \A j \in rules : i <= j
        listed(bookmark, category) ==
            /\ DictHas(categories, category)
            /\ bookmark \in Range(DictGet(categories, category))
        in_category(bookmark, rules) ==
            (rules # {} /\ Find(domain_categories[first(rules)][1], "/") > 0)
                => listed(bookmark, domain_categories[first(rules)][2])
    IN  phase = "domains" =>
            \A k \in 1..Len(args.bookmarks) :
                in_category(args.bookmarks[k], matching(args.bookmarks[k].url))

\* C29: when organize splits a category (it has more bookmarks than
\* max_bookmarks_per_folder), every bookmark of the category whose URL is the
\* URL of a bookmark of the tree is, in the tree returned, in a subfolder of
\* the folder of the category.
C29_split_category_keeps_bookmarks ==
    phase = "organized" =>
        \A c \in 1..Len(categories) :
            LET tree_urls == {heap0[n].url : n \in {m \in Nodes(heap0, RootId) :
                                                      heap0[m].type = "bookmark"}} \ {<<>>}
                folders == {f \in Range(heap[result].children) :
                               /\ heap[f].type = "folder"
                               /\ heap[f].title = categories[c].key
                               /\ "lastModified" \notin DOMAIN heap[f]}
                in_subfolder(f, url) ==
                    \E sub \in Range(heap[f].children) :
                        /\ heap[sub].type = "folder"
                        /\ \E b \in Range(heap[sub].children) :
                              heap[b].type = "bookmark" /\ heap[b].url = url
            IN  Len(categories[c].value) > args.max_bookmarks_per_folder =>
                    \A i \in 1..Len(categories[c].value) :
                        categories[c].value[i].url \in tree_urls =>
                            \E f \in folders : in_subfolder(f, categories[c].value[i].url)

\* C30: in the tree returned by organize, no folder that organize made (the
\* folder of a category, a subfolder of a split category, "Uncategorized")
\* has more than max_bookmarks_per_folder bookmarks among its children.
C30_no_folder_over_maximum ==
    phase = "organized" =>
        LET made == {f \in Range(heap[result].children) :
                        /\ heap[f].type = "folder"
                        /\ "lastModified" \notin DOMAIN heap[f]}
            subfolders == UNION {{s \in Range(heap[f].children) : heap[s].type = "folder"} :
                                    f \in made}
            bookmarks_in(f) == {k \in 1..Len(heap[f].children) :
                                   heap[heap[f].children[k]].type = "bookmark"}
        IN  \A f \in made \cup subfolders :
                Cardinality(bookmarks_in(f)) <= args.max_bookmarks_per_folder

====
